---- MODULE Spec2Model ----
(***************************************************************************)
(* Model of the cookie cleaner of telegram-cleaner-bot: the classification *)
(* and scoring engine of src/cleaner/cleaner.py, its CLI caller            *)
(* (src/main.py) and the part of the bot's file_handler (src/handlers.py)  *)
(* that calls it.                                                          *)
(*                                                                         *)
(* Text is modelled by TLA+ strings, on which TLC evaluates Len, SubSeq    *)
(* and \o; a file is the sequence of its lines (each without its newline)  *)
(* when read, and the string of its characters when written.               *)
(***************************************************************************)
EXTENDS Integers, Sequences, FiniteSets, TLC

(***************************************************************************)
(* Bounds of the model.                                                    *)
(***************************************************************************)
\* greatest number of lines of an input file
MaxLines == 2
\* capacity of the get_main_domain cache in the model (512 in the code)
CacheMax == 1
\* number of clock steps taken by the model
MaxTicks == 1
\* number of uploads the bot handles at once
MaxUploads == 2

(***************************************************************************)
(* Strings (python str methods used by the code).                          *)
(***************************************************************************)
TAB == "\t"
NL == "\n"

\* the characters str.strip() removes
Whitespace == {" ", "\t", "\n", "\r"}

CharAt(s, i) == SubSeq(s, i, i)

\* p in s
Contains(p, s) ==
    \E i \in 0..(Len(s) - Len(p)) : SubSeq(s, i + 1, i + Len(p)) = p

UpperToLower ==
    [A |-> "a", B |-> "b", C |-> "c", D |-> "d", E |-> "e", F |-> "f",
     G |-> "g", H |-> "h", I |-> "i", J |-> "j", K |-> "k", L |-> "l",
     M |-> "m", N |-> "n", O |-> "o", P |-> "p", Q |-> "q", R |-> "r",
     S |-> "s", T |-> "t", U |-> "u", V |-> "v", W |-> "w", X |-> "x",
     Y |-> "y", Z |-> "z"]

LowerChar(c) == IF c \in DOMAIN UpperToLower THEN UpperToLower[c] ELSE c

RECURSIVE Lower(_)
\* s.lower()
Lower(s) ==
    IF Len(s) = 0 THEN ""
    ELSE IF Len(s) = 1 THEN LowerChar(s)
    ELSE Lower(SubSeq(s, 1, Len(s) \div 2))
         \o Lower(SubSeq(s, (Len(s) \div 2) + 1, Len(s)))

LowerToUpper ==
    [a |-> "A", b |-> "B", c |-> "C", d |-> "D", e |-> "E", f |-> "F",
     g |-> "G", h |-> "H", i |-> "I", j |-> "J", k |-> "K", l |-> "L",
     m |-> "M", n |-> "N", o |-> "O", p |-> "P", q |-> "Q", r |-> "R",
     s |-> "S", t |-> "T", u |-> "U", v |-> "V", w |-> "W", x |-> "X",
     y |-> "Y", z |-> "Z"]

UpperChar(c) == IF c \in DOMAIN LowerToUpper THEN LowerToUpper[c] ELSE c

\* s.capitalize()
Capitalize(s) ==
    IF Len(s) = 0 THEN ""
    ELSE UpperChar(CharAt(s, 1)) \o Lower(SubSeq(s, 2, Len(s)))

Min(set) == CHOOSE a \in set : \A b \in set : a <= b

\* the number of leading characters of s that are in chars
LeadingIn(s, chars) ==
    CHOOSE n \in 0..Len(s) :
        /\ \A i \in 1..n : CharAt(s, i) \in chars
        /\ n < Len(s) => CharAt(s, n + 1) \notin chars

\* the number of trailing characters of s that are in chars
TrailingIn(s, chars) ==
    CHOOSE n \in 0..Len(s) :
        /\ \A i \in 1..n : CharAt(s, Len(s) + 1 - i) \in chars
        /\ n < Len(s) => CharAt(s, Len(s) - n) \notin chars

\* s.lstrip(chars)
LStripChars(s, chars) == SubSeq(s, LeadingIn(s, chars) + 1, Len(s))

\* s.rstrip(chars)
RStripChars(s, chars) == SubSeq(s, 1, Len(s) - TrailingIn(s, chars))

\* s.strip()
Strip(s) == RStripChars(LStripChars(s, Whitespace), Whitespace)

RECURSIVE JoinWith(_, _)
\* sep.join(parts)
JoinWith(parts, sep) ==
    IF Len(parts) = 0 THEN ""
    ELSE IF Len(parts) = 1 THEN parts[1]
    ELSE parts[1] \o sep \o JoinWith(Tail(parts), sep)

\* the positions of s where sep occurs
Occurrences(s, sep) ==
    {i \in 1..(Len(s) - Len(sep) + 1) : SubSeq(s, i, i + Len(sep) - 1) = sep}

RECURSIVE SplitFrom(_, _, _, _)
\* the pieces of s from position start on, cut at the leftmost occurrences
SplitFrom(s, sep, occ, start) ==
    LET rest == {i \in occ : i >= start}
    IN  IF rest = {} THEN <<SubSeq(s, start, Len(s))>>
        ELSE <<SubSeq(s, start, Min(rest) - 1)>>
             \o SplitFrom(s, sep, occ, Min(rest) + Len(sep))

\* s.split(sep), sep not empty
Split(s, sep) == SplitFrom(s, sep, Occurrences(s, sep), 1)

\* s.replace(old, new)
Replace(s, old, new) == JoinWith(Split(s, old), new)

(***************************************************************************)
(* Insertion-ordered mappings (python dict, Counter, defaultdict): a       *)
(* sequence of entries [k, v] in the order the keys were first inserted.   *)
(***************************************************************************)
Keys(d) == {d[i].k : i \in 1..Len(d)}

Has(d, key) == key \in Keys(d)

Get(d, key) == d[CHOOSE i \in 1..Len(d) : d[i].k = key].v

\* d[key] = val
Put(d, key, val) ==
    IF Has(d, key)
    THEN [i \in 1..Len(d) |-> IF d[i].k = key THEN [k |-> key, v |-> val] ELSE d[i]]
    ELSE Append(d, [k |-> key, v |-> val])

\* counter[key] += 1
Incr(d, key) == Put(d, key, IF Has(d, key) THEN Get(d, key) + 1 ELSE 1)

RECURSIVE SumValues(_)
SumValues(d) == IF Len(d) = 0 THEN 0 ELSE Head(d).v + SumValues(Tail(d))

(***************************************************************************)
(* The pattern catalog and the scoring rule table (cleaner/config.json).   *)
(***************************************************************************)
SITES ==
    << [k |-> "google",
        v |-> [services |-> << [k |-> "search",  v |-> <<"www.google">>],
                               [k |-> "gmail",   v |-> <<"mail.google">>],
                               [k |-> "youtube", v |-> <<"youtube">>] >>,
               auth |-> <<"SID", "HSID">>]],
       [k |-> "facebook",
        v |-> [services |-> << [k |-> "facebook", v |-> <<"facebook">>] >>,
               auth |-> <<"c_user", "xs">>]] >>

SCORING_RULES ==
    [sites |-> << [k |-> "google", v |-> 1],   [k |-> "facebook", v |-> 2],
                  [k |-> "instagram", v |-> 2], [k |-> "x", v |-> 2],
                  [k |-> "tiktok", v |-> 2],    [k |-> "discord", v |-> 2],
                  [k |-> "linkedin", v |-> 3],  [k |-> "github", v |-> 3],
                  [k |-> "netflix", v |-> 1],   [k |-> "spotify", v |-> 1],
                  [k |-> "twitch", v |-> 1],    [k |-> "amazon", v |-> 2],
                  [k |-> "ebay", v |-> 2],      [k |-> "paypal", v |-> 3] >>,
     services |-> << [k |-> "google",
                      v |-> << [k |-> "gmail", v |-> 2],
                               [k |-> "youtube", v |-> 1] >>] >>,
     auth_bonus |-> 5,
     levels |-> << [k |-> "HIGH",   v |-> [min_score |-> 12]],
                   [k |-> "MEDIUM", v |-> [min_score |-> 6]],
                   [k |-> "LOW",    v |-> [min_score |-> 0]] >>]

(***************************************************************************)
(* Domain normalizer.                                                      *)
(***************************************************************************)
domain_mappings ==
    << [k |-> "linkedin",  v |-> <<"linkedin">>],
       [k |-> "github",    v |-> <<"github">>],
       [k |-> "discord",   v |-> <<"discord">>],
       [k |-> "twitch",    v |-> <<"twitch">>],
       [k |-> "netflix",   v |-> <<"netflix">>],
       [k |-> "spotify",   v |-> <<"spotify">>],
       [k |-> "reddit",    v |-> <<"reddit">>],
       [k |-> "tiktok",    v |-> <<"tiktok">>],
       [k |-> "paypal",    v |-> <<"paypal">>],
       [k |-> "x",         v |-> <<"x.com", "twitter">>],
       [k |-> "google",    v |-> <<"google", "youtube", "gmail">>],
       [k |-> "amazon",    v |-> <<"amazon">>],
       [k |-> "ebay",      v |-> <<"ebay">>],
       [k |-> "facebook",  v |-> <<"facebook", "fb">>],
       [k |-> "instagram", v |-> <<"instagram">>],
       [k |-> "roblox",    v |-> <<"roblox">>],
       [k |-> "steam",     v |-> <<"steam", "steampowered">>],
       [k |-> "epicgames", v |-> <<"epicgames", "epic">>],
       [k |-> "microsoft", v |-> <<"microsoft", "live", "outlook">>],
       [k |-> "apple",     v |-> <<"apple", "icloud">>],
       [k |-> "genshin",   v |-> <<"genshin", "mihoyo">>],
       [k |-> "minecraft", v |-> <<"minecraft", "mojang">>] >>

\* any(p in s for p in patterns)
AnyIn(patterns, s) == \E j \in 1..Len(patterns) : Contains(patterns[j], s)

\* variant of MainDomainOf: the domain is not lowercased
MainDomainOf_NoLower(raw) ==
    LET domain == LStripChars(raw, {"."})
        hits == {i \in 1..Len(domain_mappings) : AnyIn(domain_mappings[i].v, domain)}
        parts == Split(domain, ".")
    IN  IF hits # {}
        THEN domain_mappings[CHOOSE i \in hits : \A j \in hits : i <= j].k
        ELSE IF Len(parts) >= 2
             THEN JoinWith(SubSeq(parts, Len(parts) - 1, Len(parts)), ".")
             ELSE domain

\* the body of get_main_domain (what a cache miss computes)
MainDomainOf(raw) ==
    LET domain == LStripChars(Lower(raw), {"."})
        hits == {i \in 1..Len(domain_mappings) : AnyIn(domain_mappings[i].v, domain)}
        parts == Split(domain, ".")
    IN  IF hits # {}
        THEN domain_mappings[CHOOSE i \in hits : \A j \in hits : i <= j].k
        ELSE IF Len(parts) >= 2
             THEN JoinWith(SubSeq(parts, Len(parts) - 1, Len(parts)), ".")
             ELSE domain

\* variant of CacheStore: a miss stores the domain as it was given in place
\* of the main domain computed for it
CacheStore_StoresKey(cache, raw, val) ==
    LET grown == Append(cache, [k |-> raw, v |-> raw])
    IN  [value |-> val,
         cache |-> IF Len(grown) > CacheMax THEN Tail(grown) ELSE grown]

\* a miss: the computed value enters the cache, which drops its least
\* recently used entry when it is over its capacity
CacheStore(cache, raw, val) ==
    LET grown == Append(cache, [k |-> raw, v |-> val])
    IN  [value |-> val,
         cache |-> IF Len(grown) > CacheMax THEN Tail(grown) ELSE grown]

\* @lru_cache(maxsize): the cache is a sequence of entries [k, v], least
\* recently used first.  The result is [value, cache].
get_main_domain(cache, raw) ==
    IF Has(cache, raw)
    THEN LET i == CHOOSE j \in 1..Len(cache) : cache[j].k = raw
         IN  [value |-> cache[i].v,
              cache |-> SubSeq(cache, 1, i - 1) \o SubSeq(cache, i + 1, Len(cache))
                        \o <<cache[i]>>]
    ELSE CacheStore(cache, raw, MainDomainOf(raw))

(***************************************************************************)
(* Service and auth detection.                                             *)
(***************************************************************************)
detect_service(main_domain, raw) ==
    LET domain == Lower(raw)
    IN  IF Has(SITES, main_domain)
        THEN LET services == Get(SITES, main_domain).services
                 hits == {i \in 1..Len(services) : AnyIn(services[i].v, domain)}
             IN  IF hits # {}
                 THEN services[CHOOSE i \in hits : \A j \in hits : i <= j].k
                 ELSE "other"
        ELSE ""

\* Optional[str]: None is <<>>, a string a is <<a>>
NoAuth == <<>>

detect_auth(main_domain, cookie_name) ==
    IF Has(SITES, main_domain)
    THEN LET auths == Get(SITES, main_domain).auth
             name == Lower(cookie_name)
             hits == {i \in 1..Len(auths) : Contains(Lower(auths[i]), name)}
         IN  IF hits # {}
             THEN <<auths[CHOOSE i \in hits : \A j \in hits : i <= j]>>
             ELSE NoAuth
    ELSE NoAuth

\* python truth value of the result of detect_auth
Truthy(auth) == auth # NoAuth /\ auth[1] # ""

(***************************************************************************)
(* Files.  A file system maps a path to the text of the file, or to NoFile *)
(* when there is no file at that path.                                     *)
(***************************************************************************)
NoFile == <<>>

Exists(files, path) == files[path] # NoFile

Text(files, path) == files[path][1]

\* the text after the last newline is a line only if it is not empty
DropLastEmpty(lines) ==
    IF lines[Len(lines)] = "" THEN SubSeq(lines, 1, Len(lines) - 1) ELSE lines

\* the lines "for line in f" yields, each without its newline
ReadLines(text) == DropLastEmpty(Split(text, NL))

RECURSIVE WriteLines(_)
\* the text written by: for line in lines: f.write(line + "\n")
WriteLines(lines) ==
    IF Len(lines) = 0 THEN ""
    ELSE Head(lines) \o NL \o WriteLines(Tail(lines))

(***************************************************************************)
(* Cookie parser.                                                          *)
(***************************************************************************)
\* f"{domain}|{cookie_name}"
unique_key(domain, cookie_name) == domain \o "|" \o cookie_name

\* the counters after a cookie with a new key, whose main domain is got.value
CountCookie(acc, key, domain, cookie_name, got) ==
    LET main_domain == got.value
        service == detect_service(main_domain, domain)
        auth == detect_auth(main_domain, cookie_name)
        services == IF Has(acc.service_counter, main_domain)
                    THEN Get(acc.service_counter, main_domain)
                    ELSE <<>>
        auths == IF Has(acc.auth_detected, main_domain)
                 THEN Get(acc.auth_detected, main_domain)
                 ELSE {}
    IN  [site_counter |-> Incr(acc.site_counter, main_domain),
         service_counter |->
             Put(acc.service_counter, main_domain, Incr(services, service)),
         auth_detected |->
             IF Truthy(auth)
             THEN Put(acc.auth_detected, main_domain, auths \cup {auth[1]})
             ELSE acc.auth_detected,
         seen_cookies |-> acc.seen_cookies \cup {key},
         cache |-> got.cache]

\* the loop body from the duplicate test on
ParseFields(acc, domain, cookie_name) ==
    LET key == unique_key(domain, cookie_name)
    IN  IF key \in acc.seen_cookies THEN acc
        ELSE CountCookie(acc, key, domain, cookie_name,
                         get_main_domain(acc.cache, domain))

\* variant of ParseParts: lines of 6 fields pass the validity test
ParseParts_Min6(acc, parts) ==
    IF Len(parts) < 6 THEN acc
    ELSE ParseFields(acc, parts[1], parts[6])

\* the loop body from the validity test on: parts = line.split('\t')
ParseParts(acc, parts) ==
    IF Len(parts) < 7 THEN acc
    ELSE ParseFields(acc, parts[1], parts[6])

\* the loop body after line = line.strip()
ParseStripped(acc, line) ==
    IF line = "" THEN acc
    ELSE ParseParts(acc, Split(line, TAB))

\* one iteration of the loop of parse_cookies over a raw line
ParseLine(acc, raw) == ParseStripped(acc, Strip(raw))

RECURSIVE ParseLines(_, _)
ParseLines(acc, lines) ==
    IF Len(lines) = 0 THEN acc
    ELSE ParseLines(ParseLine(acc, Head(lines)), Tail(lines))

\* an exception, with the file name it carries ("" when it carries none)
Raised(exc, filename) == [kind |-> "raise", exc |-> exc, filename |-> filename]

\* what parse_cookies returns, with the cache it leaves
Counters(acc) ==
    [kind |-> "return",
     site_counter |-> acc.site_counter,
     service_counter |-> acc.service_counter,
     auth_detected |-> acc.auth_detected,
     cache |-> acc.cache]

\* parse_cookies(file_path) run with the given cache: the counters and the
\* cache it leaves, or the exception it raises
parse_cookies(files, cache, file_path) ==
    IF ~Exists(files, file_path)
    THEN Raised("FileNotFoundError", file_path)
    ELSE Counters(ParseLines([site_counter |-> <<>>,
                              service_counter |-> <<>>,
                              auth_detected |-> <<>>,
                              seen_cookies |-> {},
                              cache |-> cache],
                             ReadLines(Text(files, file_path))))

(***************************************************************************)
(* Integers as text.                                                       *)
(***************************************************************************)
Digits == <<"0", "1", "2", "3", "4", "5", "6", "7", "8", "9">>

IsDigit(c) == \E d \in 1..10 : Digits[d] = c

DigitValue(c) == (CHOOSE d \in 1..10 : Digits[d] = c) - 1

RECURSIVE DigitsValue(_)
DigitsValue(s) ==
    IF Len(s) = 0 THEN 0
    ELSE DigitsValue(SubSeq(s, 1, Len(s) - 1)) * 10 + DigitValue(CharAt(s, Len(s)))

\* int() of a run of digits with its sign
IntOfBody(negative, body) ==
    IF Len(body) = 0 \/ \E i \in 1..Len(body) : ~IsDigit(CharAt(body, i))
    THEN <<>>
    ELSE IF negative THEN <<0 - DigitsValue(body)>> ELSE <<DigitsValue(body)>>

\* int() of a text without surrounding whitespace
IntOfStripped(t) ==
    IF Len(t) > 0 /\ CharAt(t, 1) \in {"+", "-"}
    THEN IntOfBody(CharAt(t, 1) = "-", SubSeq(t, 2, Len(t)))
    ELSE IntOfBody(FALSE, t)

\* int(s): <<n>>, or <<>> when int raises ValueError
ParseInt(s) == IntOfStripped(Strip(s))

RECURSIVE NatToStr(_)
NatToStr(n) ==
    IF n < 10 THEN Digits[n + 1]
    ELSE NatToStr(n \div 10) \o Digits[(n % 10) + 1]

\* str(n)
IntToStr(n) == IF n < 0 THEN "-" \o NatToStr(0 - n) ELSE NatToStr(n)

(***************************************************************************)
(* Metrics calculator.  Time is in seconds since the epoch.                *)
(***************************************************************************)
SecondsPerDay == 86400

\* the sign and the digits, without leading zeros, of a run of digits
IntTextOfBody(negative, body) ==
    IF Len(body) = 0 \/ \E i \in 1..Len(body) : ~IsDigit(CharAt(body, i))
    THEN <<>>
    ELSE <<[negative |-> negative, digits |-> LStripChars(body, {"0"})]>>

\* the same for a text without surrounding whitespace
IntTextOfStripped(t) ==
    IF Len(t) > 0 /\ CharAt(t, 1) \in {"+", "-"}
    THEN IntTextOfBody(CharAt(t, 1) = "-", SubSeq(t, 2, Len(t)))
    ELSE IntTextOfBody(FALSE, t)

\* int(s) as <<[negative, digits]>>, for a python int has no bound; <<>>
\* when int raises ValueError
IntText(s) == IntTextOfStripped(Strip(s))

\* a <= b for two runs of digits without leading zeros
DigitsLeq(a, b) ==
    \/ Len(a) < Len(b)
    \/ /\ Len(a) = Len(b)
       /\ \A i \in 1..Len(a) :
              (\A k \in 1..(i - 1) : CharAt(a, k) = CharAt(b, k))
                  => DigitValue(CharAt(a, i)) <= DigitValue(CharAt(b, i))

\* datetime.fromtimestamp(ts, timezone.utc) for a positive timestamp given
\* by its digits: "ok" up to the last second of year 9999; beyond it
\* ValueError up to the greatest timestamp gmtime takes (64-bit glibc),
\* OSError up to the greatest time_t, and OverflowError beyond
FromTimestamp(digits) ==
    IF DigitsLeq(digits, "253402300799") THEN "ok"
    ELSE IF DigitsLeq(digits, "67768036191676799") THEN "ValueError"
    ELSE IF DigitsLeq(digits, "9223372036854775807") THEN "OSError"
    ELSE "OverflowError"

\* the timestamp the loop sees for int(parts[4]) = t: <<>> when int or
\* fromtimestamp raises ValueError (continue), <<0>> for a timestamp that
\* is not positive, which the loop does not use.  A timestamp that
\* fromtimestamp takes is computed with the integers of TLC, so the input
\* files of the model hold none above 2^31 - 1
ExpiryOfText(t) ==
    IF t = <<>> THEN <<>>
    ELSE IF t[1].negative \/ t[1].digits = "" THEN <<0>>
    ELSE IF FromTimestamp(t[1].digits) = "ok" THEN <<DigitsValue(t[1].digits)>>
    ELSE <<>>

\* the exception of fromtimestamp that the handler (ValueError, IndexError)
\* does not catch, as <<exc>>; <<>> when there is none
UncaughtOfText(t) ==
    IF t # <<>> /\ ~t[1].negative /\ t[1].digits # ""
       /\ FromTimestamp(t[1].digits) \in {"OSError", "OverflowError"}
    THEN <<FromTimestamp(t[1].digits)>>
    ELSE <<>>

\* the same for the fields of a line
UncaughtOf(parts) ==
    IF Len(parts) >= 5 THEN UncaughtOfText(IntText(parts[5])) ELSE <<>>

RECURSIVE AgeRaises(_)
\* the exception r of the first line if it raises one, else that of the rest
FirstUncaught(r, rest) == IF r # <<>> THEN r ELSE AgeRaises(rest)

\* the exception that ends calculate_oldest_cookie_age, as <<exc>>; <<>>
\* when it returns
AgeRaises(lines) ==
    IF Len(lines) = 0 THEN <<>>
    ELSE FirstUncaught(UncaughtOf(Split(Strip(Head(lines)), TAB)), Tail(lines))

\* variant of ExpiryOf: a field that is not a number counts as the
\* timestamp 1
ExpiryOf_One(parts) ==
    IF Len(parts) >= 5
    THEN IF ParseInt(parts[5]) = <<>> THEN <<1>> ELSE ParseInt(parts[5])
    ELSE <<>>

\* int(parts[4]) of a line of at least 5 fields, where the loop can use it;
\* <<>> for a shorter line and for a field that raises ValueError (continue)
ExpiryOf(parts) ==
    IF Len(parts) >= 5 THEN ExpiryOfText(IntText(parts[5])) ELSE <<>>

\* oldest_timestamp after a line: a positive timestamp older than it
\* replaces it
OlderOf(oldest, expires) ==
    IF expires # <<>> /\ expires[1] > 0
       /\ (oldest = <<>> \/ expires[1] < oldest[1])
    THEN expires
    ELSE oldest

RECURSIVE OldestTimestamp(_, _)
\* the loop of calculate_oldest_cookie_age: <<>> is None
OldestTimestamp(lines, oldest) ==
    IF Len(lines) = 0 THEN oldest
    ELSE OldestTimestamp(Tail(lines),
                         OlderOf(oldest, ExpiryOf(Split(Strip(Head(lines)), TAB))))

\* the human-readable age
AgeText(age_days) ==
    IF age_days < 1 THEN "Less than 1 day"
    ELSE IF age_days < 30 THEN IntToStr(age_days) \o " days"
    ELSE IF age_days < 365 THEN IntToStr(age_days \div 30) \o " months"
    ELSE IntToStr(age_days \div 365) \o " years"

\* the age of the oldest timestamp; .days of a timedelta is a floor division
AgeOf(oldest, current_time) ==
    IF oldest # <<>>
    THEN AgeText((current_time - oldest[1]) \div SecondsPerDay)
    ELSE "Unknown"

calculate_oldest_cookie_age(lines, current_time) ==
    AgeOf(OldestTimestamp(lines, <<>>), current_time)

tracking_patterns ==
    << "_ga", "_gid", "_gat", "__utma", "__utmb", "__utmc", "__utmz",
       "_fbp", "_fbc", "fr",
       "_tt_enable_cookie", "_ttp",
       "mbox", "AMCV_", "s_cc", "s_sq", "s_vi",
       "utag_main", "_utma", "_utmb", "_utmc", "_utmz",
       "mp_", "__mp",
       "amplitude_id",
       "ajs_user_id", "ajs_anonymous_id",
       "_hjid", "_hjClosedSurveyInvites",
       "intercom-id-", "intercom-session-",
       "zendesk_",
       "drift_",
       "hsCtaTracking", "_hstc", "_hssc" >>

\* pattern.lower() of every tracking pattern
LowerPatterns == [j \in 1..Len(tracking_patterns) |-> Lower(tracking_patterns[j])]

\* any(pattern.lower() in cookie_name for pattern in tracking_patterns)
TrackingName(cookie_name) ==
    \E j \in 1..Len(LowerPatterns) : Contains(LowerPatterns[j], cookie_name)

\* the test of one line on its fields
IsTracking(parts) == Len(parts) >= 6 /\ TrackingName(Lower(parts[6]))

RECURSIVE count_tracking_cookies(_)
count_tracking_cookies(lines) ==
    IF Len(lines) = 0 THEN 0
    ELSE (IF IsTracking(Split(Strip(Head(lines)), TAB)) THEN 1 ELSE 0)
         + count_tracking_cookies(Tail(lines))

\* round(num / den, 0) for num >= 0, den > 0: to nearest, ties to even
RoundHalfEven(num, den) ==
    LET q == num \div den
        r == num % den
    IN  IF 2 * r < den THEN q
        ELSE IF 2 * r > den THEN q + 1
        ELSE IF q % 2 = 0 THEN q ELSE q + 1

\* variant of calculate_privacy_score: the retention ratio itself is scored
calculate_privacy_score_Retention(cleaned_count, total_count) ==
    IF total_count = 0 THEN 100
    ELSE RoundHalfEven(cleaned_count * 100, total_count)

\* calculate_privacy_score, in tenths: 100 stands for 10.0.  The quotient
\* is rounded as an exact number; a negative score rounds symmetrically.
calculate_privacy_score(cleaned_count, total_count) ==
    IF total_count = 0 THEN 100
    ELSE LET num == (total_count - cleaned_count) * 100
         IN  IF num >= 0 THEN RoundHalfEven(num, total_count)
             ELSE 0 - RoundHalfEven(0 - num, total_count)

(***************************************************************************)
(* Scoring engine.                                                         *)
(***************************************************************************)
CATEGORY_SCORES ==
    [social |-> {"facebook", "instagram", "x", "tiktok", "discord"},
     entertainment |-> {"netflix", "spotify", "twitch", "youtube"},
     professional |-> {"linkedin", "github"},
     shopping |-> {"amazon", "ebay", "paypal"},
     search |-> {"google"}]

\* variant of calculate_category_bonuses: the four tests are alternatives,
\* and only the first that holds gives its bonus
calculate_category_bonuses_Exclusive(site_counter) ==
    LET sites == Keys(site_counter)
    IN  IF Cardinality(CATEGORY_SCORES.social \cap sites) >= 3
        THEN <<"Social butterfly (+2)">>
        ELSE IF "linkedin" \in sites /\ "github" \in sites
        THEN <<"Tech professional (+3)">>
        ELSE IF Cardinality(CATEGORY_SCORES.entertainment \cap sites) >= 2
        THEN <<"Entertainment addict (+1)">>
        ELSE IF Cardinality(CATEGORY_SCORES.shopping \cap sites) >= 2
        THEN <<"Shopaholic (+2)">>
        ELSE <<>>

\* site_counter is any mapping keyed by site (a Counter or a dict)
calculate_category_bonuses(site_counter) ==
    LET sites == Keys(site_counter)
    IN  (IF Cardinality(CATEGORY_SCORES.social \cap sites) >= 3
         THEN <<"Social butterfly (+2)">> ELSE <<>>)
        \o (IF "linkedin" \in sites /\ "github" \in sites
            THEN <<"Tech professional (+3)">> ELSE <<>>)
        \o (IF Cardinality(CATEGORY_SCORES.entertainment \cap sites) >= 2
            THEN <<"Entertainment addict (+1)">> ELSE <<>>)
        \o (IF Cardinality(CATEGORY_SCORES.shopping \cap sites) >= 2
            THEN <<"Shopaholic (+2)">> ELSE <<>>)

\* variant of add_score: the points are taken from the score
add_score_Minus(st, points, reason) ==
    [score |-> st.score - points,
     score_reasons |-> Append(st.score_reasons,
                              "+" \o IntToStr(points) \o " " \o reason)]

\* add_score: the running [score, score_reasons]
add_score(st, points, reason) ==
    [score |-> st.score + points,
     score_reasons |-> Append(st.score_reasons,
                              "+" \o IntToStr(points) \o " " \o reason)]

RECURSIVE SiteScores(_, _, _)
SiteScores(st, rules, site_counter) ==
    IF Len(rules) = 0 THEN st
    ELSE SiteScores(IF Has(site_counter, Head(rules).k)
                    THEN add_score(st, Head(rules).v,
                                   Capitalize(Replace(Head(rules).k, ".com", ""))
                                   \o " cookies")
                    ELSE st,
                    Tail(rules), site_counter)

RECURSIVE CategoryScores(_, _)
CategoryScores(st, bonuses) ==
    IF Len(bonuses) = 0 THEN st
    ELSE LET bonus == Head(bonuses)
         IN  CategoryScores(
                 IF Contains("(", bonus) /\ Contains(")", bonus)
                 THEN add_score(st,
                                ParseInt(RStripChars(Split(bonus, "(+")[2], {")"}))[1],
                                Split(bonus, " (")[1])
                 ELSE st,
                 Tail(bonuses))

RECURSIVE ServiceScoresOf(_, _, _)
\* the inner loop over the scored services of one site
ServiceScoresOf(st, services, detected) ==
    IF Len(services) = 0 THEN st
    ELSE ServiceScoresOf(IF Has(detected, Head(services).k)
                         THEN add_score(st, Head(services).v,
                                        Capitalize(Head(services).k) \o " detected")
                         ELSE st,
                         Tail(services), detected)

RECURSIVE ServiceScores(_, _, _, _)
ServiceScores(st, rules, site_counter, service_counter) ==
    IF Len(rules) = 0 THEN st
    ELSE ServiceScores(
             IF Has(site_counter, Head(rules).k)
             THEN ServiceScoresOf(st, Head(rules).v,
                                  IF Has(service_counter, Head(rules).k)
                                  THEN Get(service_counter, Head(rules).k)
                                  ELSE <<>>)
             ELSE st,
             Tail(rules), site_counter, service_counter)

\* variant of LevelOf: the last level of the table whose min_score the
\* score reaches
LevelOf_Last(score) ==
    LET levels == SCORING_RULES.levels
        hits == {i \in 1..Len(levels) : score >= levels[i].v.min_score}
    IN  IF hits # {}
        THEN levels[CHOOSE i \in hits : \A j \in hits : i >= j].k
        ELSE "LOW"

\* the first level, in table order, whose min_score the score reaches
LevelOf(score) ==
    LET levels == SCORING_RULES.levels
        hits == {i \in 1..Len(levels) : score >= levels[i].v.min_score}
    IN  IF hits # {}
        THEN levels[CHOOSE i \in hits : \A j \in hits : i <= j].k
        ELSE "LOW"

\* variant of AuthScore: the reason of the auth bonus is put in front of
\* the other reasons
AuthScore_First(st, auth_detected) ==
    IF Len(auth_detected) > 0
    THEN [score |-> st.score + SCORING_RULES.auth_bonus,
          score_reasons |-> <<"+" \o IntToStr(SCORING_RULES.auth_bonus)
                              \o " AUTH cookies detected">> \o st.score_reasons]
    ELSE st

\* the auth bonus: if auth_detected
AuthScore(st, auth_detected) ==
    IF Len(auth_detected) > 0
    THEN add_score(st, SCORING_RULES.auth_bonus, "AUTH cookies detected")
    ELSE st

\* the (score, level, score_reasons) returned
Leveled(st) ==
    [score |-> st.score, level |-> LevelOf(st.score),
     score_reasons |-> st.score_reasons]

\* sites, then category bonuses, then services, then the auth bonus
calculate_score(site_counter, service_counter, auth_detected) ==
    Leveled(
        AuthScore(
            ServiceScores(
                CategoryScores(
                    SiteScores([score |-> 0, score_reasons |-> <<>>],
                               SCORING_RULES.sites, site_counter),
                    calculate_category_bonuses(site_counter)),
                SCORING_RULES.services, site_counter, service_counter),
            auth_detected))

(***************************************************************************)
(* Cleaner orchestrator.                                                   *)
(***************************************************************************)
RECURSIVE StrippedLines(_)
\* [line.strip() for line in f if line.strip()]
StrippedLines(lines) ==
    IF Len(lines) = 0 THEN <<>>
    ELSE LET line == Strip(Head(lines))
         IN  (IF line # "" THEN <<line>> ELSE <<>>) \o StrippedLines(Tail(lines))

\* a fresh set of seen keys for the second pass
NewSeen == {}

\* variant of KeepAuth: the key of the cookie is not added to the keys seen
KeepAuth_NoSeen(acc, line, key, cookie_name, got) ==
    LET auth == detect_auth(got.value, cookie_name)
    IN  [cleaned_lines |-> IF Truthy(auth)
                           THEN Append(acc.cleaned_lines, line)
                           ELSE acc.cleaned_lines,
         seen_cookies |-> acc.seen_cookies,
         cache |-> got.cache]

\* the second loop's body for a cookie with a new key
KeepAuth(acc, line, key, cookie_name, got) ==
    LET auth == detect_auth(got.value, cookie_name)
    IN  [cleaned_lines |-> IF Truthy(auth)
                           THEN Append(acc.cleaned_lines, line)
                           ELSE acc.cleaned_lines,
         seen_cookies |-> acc.seen_cookies \cup {key},
         cache |-> got.cache]

\* the second loop's body from the duplicate test on
CleanFields(acc, line, domain, cookie_name) ==
    LET key == unique_key(domain, cookie_name)
    IN  IF key \in acc.seen_cookies THEN acc
        ELSE KeepAuth(acc, line, key, cookie_name,
                      get_main_domain(acc.cache, domain))

\* variant of CleanParts: lines of 6 fields pass the validity test
CleanParts_Min6(acc, line, parts) ==
    IF Len(parts) < 6 THEN acc
    ELSE CleanFields(acc, line, parts[1], parts[6])

\* the second loop's body from the validity test on
CleanParts(acc, line, parts) ==
    IF Len(parts) < 7 THEN acc
    ELSE CleanFields(acc, line, parts[1], parts[6])

\* one iteration of the second loop of clean_cookies over a stripped line
CleanLine(acc, line) == CleanParts(acc, line, Split(line, TAB))

RECURSIVE CleanLines(_, _)
CleanLines(acc, lines) ==
    IF Len(lines) = 0 THEN acc
    ELSE CleanLines(CleanLine(acc, Head(lines)), Tail(lines))

RECURSIVE most_common(_)
\* Counter.most_common(): by decreasing count, first inserted first on ties
most_common(counter) ==
    IF Len(counter) = 0 THEN <<>>
    ELSE LET i == CHOOSE a \in 1..Len(counter) :
                      /\ \A b \in 1..Len(counter) : counter[b].v <= counter[a].v
                      /\ \A b \in 1..(a - 1) : counter[b].v < counter[a].v
         IN  <<counter[i]>>
             \o most_common(SubSeq(counter, 1, i - 1)
                            \o SubSeq(counter, i + 1, Len(counter)))

order ==
    << "search", "gmail", "youtube", "other", "shopping", "marketplace",
       "twitter", "facebook", "tiktok", "reddit", "linkedin", "github",
       "discord", "twitch", "netflix", "spotify" >>

\* order.index(x) if x in order else 99
Rank(x) ==
    IF \E i \in 1..Len(order) : order[i] = x
    THEN (CHOOSE i \in 1..Len(order) : order[i] = x) - 1
    ELSE 99

RECURSIVE SortedByRank(_)
\* sorted(a set, key=Rank): equal ranks come in the iteration order of the
\* set, which is fixed but unspecified
SortedByRank(set) ==
    IF set = {} THEN <<>>
    ELSE LET x == CHOOSE a \in set : \A b \in set : Rank(a) <= Rank(b)
         IN  <<x>> \o SortedByRank(set \ {x})

RECURSIVE StableByRank(_)
\* sorted(a list, key=Rank)
StableByRank(list) ==
    IF Len(list) = 0 THEN <<>>
    ELSE LET i == CHOOSE a \in 1..Len(list) :
                      /\ \A b \in 1..Len(list) : Rank(list[a]) <= Rank(list[b])
                      /\ \A b \in 1..(a - 1) : Rank(list[a]) < Rank(list[b])
         IN  <<list[i]>>
             \o StableByRank(SubSeq(list, 1, i - 1) \o SubSeq(list, i + 1, Len(list)))

\* the keys of a mapping, in insertion order
KeyList(d) == [i \in 1..Len(d) |-> d[i].k]

\* the values a list holds
Elements(list) == {list[i] : i \in 1..Len(list)}

\* [x for x in list if x]
RECURSIVE NonEmpty(_)
NonEmpty(list) ==
    IF Len(list) = 0 THEN <<>>
    ELSE (IF Head(list) # "" THEN <<Head(list)>> ELSE <<>>) \o NonEmpty(Tail(list))

\* sorted(detected_services | set(config_services), key=Rank) for a catalog
\* site, sorted(detected_services, key=Rank) for another
MergedServices(site, detected) ==
    IF Has(SITES, site)
    THEN SortedByRank(Elements(detected) \cup Keys(Get(SITES, site).services))
    ELSE StableByRank(detected)

\* services_dict[site]
ServicesOf(site, service_counter) ==
    MergedServices(site, NonEmpty(KeyList(Get(service_counter, site))))

\* most_common_site
MostCommonText(common) ==
    IF Len(common) > 0
    THEN common[1].k \o " (" \o IntToStr(common[1].v) \o " times)"
    ELSE "None"

\* the dict clean_cookies returns
ResultOf(all_lines, parsed, cleaned_lines, total_unique_cookies, current_time) ==
    [sites |-> most_common(parsed.site_counter),
     services |-> [i \in 1..Len(parsed.site_counter) |->
                      [k |-> parsed.site_counter[i].k,
                       v |-> ServicesOf(parsed.site_counter[i].k,
                                        parsed.service_counter)]],
     auth_detected |-> parsed.auth_detected,
     total_cleaned |-> Len(cleaned_lines),
     total_unique_cookies |-> total_unique_cookies,
     unique_sites |-> Len(parsed.site_counter),
     most_common_site |-> MostCommonText(most_common(parsed.site_counter)),
     oldest_cookie_age |-> calculate_oldest_cookie_age(all_lines, current_time),
     tracking_intensity |-> count_tracking_cookies(all_lines),
     privacy_score |->
         calculate_privacy_score(Len(cleaned_lines), total_unique_cookies)]

\* how clean_cookies ends once the output file is written: with the
\* exception the metrics raised, or with the Result
CleanEnd(written, cache, raised, result) ==
    IF raised # <<>>
    THEN [kind |-> "raise", exc |-> raised[1], filename |-> "",
          files |-> written, cache |-> cache]
    ELSE [kind |-> "return", files |-> written, cache |-> cache,
          result |-> result]

\* clean_cookies after its second pass: the output file is written and the
\* statistics are computed
CleanWrite(files, current_time, output_file_path, all_lines, parsed, pass2) ==
    CleanEnd([files EXCEPT
                 ![output_file_path] = <<WriteLines(pass2.cleaned_lines)>>],
             pass2.cache,
             AgeRaises(all_lines),
             ResultOf(all_lines, parsed, pass2.cleaned_lines,
                      Cardinality(pass2.seen_cookies), current_time))

\* clean_cookies after parse_cookies: the second pass over all_lines
CleanPass(files, current_time, output_file_path, all_lines, parsed) ==
    CleanWrite(files, current_time, output_file_path, all_lines, parsed,
               CleanLines([cleaned_lines |-> <<>>,
                           seen_cookies |-> NewSeen,
                           cache |-> parsed.cache],
                          all_lines))

\* clean_cookies(input_file_path, output_file_path) run on the given files
\* and cache at the given time: the Result with the files and cache it
\* leaves, or the exception it raises with the files and cache it leaves
clean_cookies(files, cache, current_time, input_file_path, output_file_path) ==
    IF ~Exists(files, input_file_path)
    THEN \* the handler of FileNotFoundError formats the undefined file_path
         [kind |-> "raise", exc |-> "NameError", filename |-> "",
          files |-> files, cache |-> cache]
    ELSE CleanPass(files, current_time, output_file_path,
                   StrippedLines(ReadLines(Text(files, input_file_path))),
                   parse_cookies(files, cache, input_file_path))

\* what main() prints for the counters parsed
Printed(parsed, scored) ==
    [kind |-> "return", cache |-> parsed.cache,
     score |-> scored.score, level |-> scored.level,
     score_reasons |-> scored.score_reasons]

\* main() after parse_cookies
MainParsed(parsed) ==
    IF parsed.kind = "raise" THEN parsed
    ELSE Printed(parsed, calculate_score(parsed.site_counter,
                                         parsed.service_counter,
                                         parsed.auth_detected))

\* main() of main.py on one file: what it prints, or the exception it
\* reports.  The CLI is a process of its own: it starts with an empty cache.
main(files, cache, file_path) == MainParsed(parse_cookies(files, cache, file_path))

\* {site: {svc: 1 for svc in svcs} for site, svcs in stats["services"].items()}
ServiceDictOf(services) ==
    [i \in 1..Len(services) |->
        [k |-> services[i].k,
         v |-> [j \in 1..Len(services[i].v) |-> [k |-> services[i].v[j], v |-> 1]]]]

\* the score file_handler writes to the stats file, from the Result
StatsScore(stats) ==
    calculate_score(stats.sites, ServiceDictOf(stats.services), stats.auth_detected)

\* paths of the caller's files and of the handler's temporary files
Paths == {"in.txt", "out.txt"}
temp_input == "tmp.txt"
temp_output == temp_input \o "_cleaned.txt"
stats_file == temp_input \o "_stats.txt"
TempPaths == {temp_input, temp_output, stats_file}

(***************************************************************************)
(* Inputs: cookie files of at most MaxLines lines.                         *)
(***************************************************************************)
Row(domain, expiry, name, value) ==
    domain \o TAB \o "/" \o TAB \o "TRUE" \o TAB \o "FALSE" \o TAB \o expiry
    \o TAB \o name \o TAB \o value

\* lines of well-formed exports
PlainLines ==
    { Row("facebook.com", "0", "c_user", "v1"),
      Row(".google.com", "34473600", "SID", "v"),
      Row("example.org", "x", "_ga", "v") }

\* lines of any shape: duplicates, short and blank lines, stray whitespace,
\* fields that are not numbers, names and domains holding "|"
AnyLines ==
    { Row("facebook.com", "0", "c_user", "v1"),
      Row("facebook.com", "0", "c_user", "v2") \o " ",
      Row(".google.com", "86400", "SID", "v"),
      Row("mail.google.com", "x", "SID_ga", "v"),
      Row("example.org", "172800", "_ga", "v"),
      "facebook.com" \o TAB \o "/" \o TAB \o "TRUE" \o TAB \o "FALSE" \o TAB
          \o "0" \o TAB \o "xs",
      " " \o Row("facebook.com", "0", "xs", "v"),
      Row("facebook.com", "0", "xs", ""),
      Row("a|b", "0", "c", "v"),
      Row("a", "0", "b|c", "v"),
      "" }

RECURSIVE LineSeqs(_, _)
\* the sequences of at most n lines of the pool
LineSeqs(pool, n) ==
    IF n = 0 THEN {<<>>}
    ELSE LET shorter == LineSeqs(pool, n - 1)
         IN  shorter \cup {Append(ls, l) : ls \in {x \in shorter : Len(x) = n - 1},
                                           l \in pool}

\* the text files holding at most MaxLines lines of the pool
InputTexts(pool) == {WriteLines(ls) : ls \in LineSeqs(pool, MaxLines)}

\* the clock at the start: day 400 of the epoch
Now0 == 400 * SecondsPerDay

(***************************************************************************)
(* State.                                                                  *)
(***************************************************************************)
VARIABLES
    files,   \* the file system: path -> NoFile or <<text>>
    cache,   \* the lru_cache of get_main_domain in the bot's process
    now,     \* the clock, in seconds
    last,    \* the last operation: its arguments, the state it started in,
             \* and what it returned or raised
    session, \* the FSM context of the chat: its state and the keys its data
             \* holds
    tasks    \* the runs of file_handler in progress, each with its locals

vars == <<files, cache, now, last, session, tasks>>

\* the FSM context of a chat the bot has not heard from, and after
\* state.clear(): no state, no data
NoSession == [state |-> "None", data |-> {}]

\* file_handler when no run is in progress: its locals are None
NoTask == [pc |-> "idle", temp_input |-> "", temp_output |-> "",
           stats_file |-> "", stats |-> <<>>]

\* the user's file in.txt is absent or holds lines of the pool
InitWith(pool) ==
    /\ files \in {[p \in Paths \cup TempPaths |->
                      IF p = "in.txt" THEN f ELSE NoFile] :
                  f \in {NoFile} \cup {<<t>> : t \in InputTexts(pool)}}
    /\ cache = <<>>
    /\ now = Now0
    /\ last = [op |-> "none"]
    /\ session = NoSession
    /\ tasks = [u \in 1..MaxUploads |-> NoTask]

Init == InitWith(PlainLines)

\* the state an operation starts in
Before == [files |-> files, cache |-> cache, now |-> now]

\* the record of a call of clean_cookies and the state it leaves
CleanCookiesDone(args, out) ==
    /\ last' = IF out.kind = "raise"
               THEN [op |-> "clean_cookies", args |-> args, before |-> Before,
                     kind |-> "raise", exc |-> out.exc,
                     filename |-> out.filename]
               ELSE [op |-> "clean_cookies", args |-> args, before |-> Before,
                     kind |-> "return", result |-> out.result]
    /\ files' = out.files
    /\ cache' = out.cache
    /\ UNCHANGED <<now, session, tasks>>

\* a caller invokes clean_cookies(input_file_path, output_file_path)
CleanCookies(input_file_path, output_file_path) ==
    CleanCookiesDone([input_file_path |-> input_file_path,
                      output_file_path |-> output_file_path],
                     clean_cookies(files, cache, now,
                                   input_file_path, output_file_path))

\* the record of a run of the CLI
MainDone(file_path, out) ==
    /\ last' = IF out.kind = "raise"
               THEN [op |-> "main", file_path |-> file_path,
                     before |-> Before, kind |-> "raise",
                     exc |-> out.exc, filename |-> out.filename]
               ELSE [op |-> "main", file_path |-> file_path,
                     before |-> Before, kind |-> "return",
                     score |-> out.score, level |-> out.level,
                     score_reasons |-> out.score_reasons]
    /\ UNCHANGED <<files, cache, now, session, tasks>>

\* python main.py <file_path>
Main(file_path) == MainDone(file_path, main(files, <<>>, file_path))

\* the score line that heads the stats file, without the emoji before it
StatsText(scored) ==
    "SCORE: " \o IntToStr(scored.score) \o " (" \o scored.level \o ")" \o NL \o NL

\* file_handler after the stats file is written: the files are sent and
\* the temporary files are removed
FileHandlerSent(out, scored, written) ==
    /\ last' = [op |-> "file_handler", before |-> Before,
                kind |-> "return", stats |-> out.result,
                score |-> scored.score, level |-> scored.level,
                sent |-> Text(written, stats_file)]
    /\ files' = [p \in DOMAIN written |->
                    IF p \in TempPaths THEN NoFile ELSE written[p]]
    /\ cache' = out.cache

\* file_handler after the score is computed: the stats file is written
FileHandlerScored(out, scored) ==
    FileHandlerSent(out, scored,
                    [out.files EXCEPT ![stats_file] = <<StatsText(scored)>>])

\* finally leaves the stats file behind
Cleanup_KeepsStats(fs, paths) ==
    [p \in DOMAIN fs |->
        IF p \in paths \ {q \o "_stats.txt" : q \in paths} THEN NoFile ELSE fs[p]]

\* the temporary files are removed (finally): each path the handler's
\* locals hold, if it exists
Cleanup(fs, paths) == [p \in DOMAIN fs |-> IF p \in paths THEN NoFile ELSE fs[p]]

\* file_handler when clean_cookies raised: the error is shown in the status
\* message and the temporary files are removed
FileHandlerFailed(out) ==
    /\ last' = [op |-> "file_handler", before |-> Before,
                kind |-> "error", exc |-> out.exc]
    /\ files' = Cleanup(out.files, TempPaths)
    /\ cache' = out.cache

\* file_handler after clean_cookies ended
FileHandlerCleaned(out) ==
    IF out.kind = "raise"
    THEN FileHandlerFailed(out)
    ELSE FileHandlerScored(out, StatsScore(out.result))

\* file_handler for a single document, here the user's file in.txt, in a
\* session that holds a status message: download, clean, score, send, and
\* removal of the temporary files
FileHandler ==
    /\ Exists(files, "in.txt")
    /\ FileHandlerCleaned(
           clean_cookies([files EXCEPT ![temp_input] = files["in.txt"]],
                         cache, now, temp_input, temp_output))
    /\ UNCHANGED <<now, session, tasks>>

\* a day passes
Tick ==
    /\ now < Now0 + MaxTicks * SecondsPerDay
    /\ now' = now + SecondsPerDay
    /\ UNCHANGED <<files, cache, last, session, tasks>>

Next ==
    \/ \E i \in Paths : CleanCookies(i, "out.txt")
    \/ \E f \in Paths : Main(f)
    \/ FileHandler
    \/ Tick

Spec == Init /\ [][Next]_vars

(***************************************************************************)
(* The cleaner alone, on files of any shape: run again and again on the    *)
(* caller's file, with the cache each run leaves.                          *)
(***************************************************************************)
InitClean == InitWith(AnyLines)

NextClean == CleanCookies("in.txt", "out.txt")

SpecClean == InitClean /\ [][NextClean]_vars

Domains ==
    {"Facebook.com", ".facebook.com", "FB.LinkedIn.com", "youtube.x.com",
     "mail.google.com", "epic.steam.io", "WWW.GitHub.io", "x.org",
     "netflix", "localhost", "a.b.Example.org", "Example.ORG", "..com"}

InitDomain ==
    /\ files = [p \in Paths \cup TempPaths |-> NoFile]
    /\ cache = <<>>
    /\ now = Now0
    /\ last = [op |-> "none"]
    /\ session = NoSession
    /\ tasks = [u \in 1..MaxUploads |-> NoTask]

\* the record of a call of get_main_domain and the cache it leaves
GetMainDomainDone(domain, r) ==
    /\ last' = [op |-> "get_main_domain", domain |-> domain,
                before |-> Before, value |-> r.value]
    /\ cache' = r.cache
    /\ UNCHANGED <<files, now, session, tasks>>

GetMainDomain(domain) == GetMainDomainDone(domain, get_main_domain(cache, domain))

NextDomain == \E d \in Domains : GetMainDomain(d)

SpecDomain == InitDomain /\ [][NextDomain]_vars

(***************************************************************************)
(* The scoring engine alone: calculate_score on the sites, services and    *)
(* auth cookies a caller may pass.                                         *)
(***************************************************************************)
\* a Counter in which each of the names was seen once
Counted(names) == [i \in 1..Len(names) |-> [k |-> names[i], v |-> 1]]

\* site counters: some sites of each category, google or not, and an
\* unscored site or not
SiteCounters ==
    {Counted(social \o professional \o entertainment \o shopping \o search
             \o unscored) :
        social \in {<<>>, <<"facebook", "x">>, <<"x", "tiktok", "instagram">>,
                    <<"facebook", "instagram", "x", "discord">>},
        professional \in {<<>>, <<"linkedin">>, <<"github", "linkedin">>},
        entertainment \in {<<>>, <<"netflix">>, <<"youtube", "netflix">>,
                           <<"spotify", "twitch", "netflix">>},
        shopping \in {<<>>, <<"amazon">>, <<"paypal", "ebay">>},
        search \in {<<>>, <<"google">>},
        unscored \in {<<>>, <<"example.org">>}}

\* services per site
ServiceCounters ==
    {<<>>,
     <<[k |-> "google", v |-> Counted(<<"gmail">>)]>>,
     <<[k |-> "facebook", v |-> Counted(<<"facebook">>)],
       [k |-> "google", v |-> Counted(<<"youtube", "search", "gmail">>)]>>}

\* auth cookie names per site: no site, sites with names, and a site with
\* an empty set of names
AuthMappings ==
    {<<>>,
     <<[k |-> "facebook", v |-> {"c_user"}]>>,
     <<[k |-> "facebook", v |-> {"c_user", "xs"}], [k |-> "google", v |-> {"SID"}]>>,
     <<[k |-> "facebook", v |-> {}]>>}

\* a caller is about to call calculate_score on arguments of these sets
InitScore ==
    /\ files = [p \in Paths \cup TempPaths |-> NoFile]
    /\ cache = <<>>
    /\ session = NoSession
    /\ tasks = [u \in 1..MaxUploads |-> NoTask]
    /\ now = Now0
    /\ last \in {[op |-> "call", site_counter |-> sc, service_counter |-> sv,
                  auth_detected |-> au] :
                    sc \in SiteCounters, sv \in ServiceCounters, au \in AuthMappings}

\* the record of a call of calculate_score
CalculateScoreDone(site_counter, service_counter, auth_detected, r) ==
    /\ last' = [op |-> "calculate_score", site_counter |-> site_counter,
                service_counter |-> service_counter,
                auth_detected |-> auth_detected,
                score |-> r.score, level |-> r.level,
                score_reasons |-> r.score_reasons]
    /\ UNCHANGED <<files, cache, now, session, tasks>>

\* the pending call is made
CalculateScore ==
    /\ last.op = "call"
    /\ CalculateScoreDone(last.site_counter, last.service_counter, last.auth_detected,
                          calculate_score(last.site_counter, last.service_counter,
                                          last.auth_detected))

NextScore == CalculateScore

SpecScore == InitScore /\ [][NextScore]_vars

(***************************************************************************)
(* The cleaner on files that exercise the metrics: expiries at every age   *)
(* boundary, in the future, beyond the range of datetime, and tracker      *)
(* names in lines of 6 and 7 fields.                                       *)
(***************************************************************************)
MetricLines ==
    { Row("facebook.com", "34556400", "c_user", "v"),
      Row(".google.com", "34473600", "SID", "v"),
      Row("example.org", "31968000", "_ga", "v"),
      Row("example.org", "3110400", "_gid_fbp", "v"),
      Row("example.org", "3024000", "sid", "v"),
      Row("facebook.com", "99999999", "xs", "v"),
      Row("facebook.com", "0", "c_user", "v"),
      Row("example.org", "253402300800", "sid", "v"),
      Row("example.org", "100000000000000000", "_ga", "v"),
      "a" \o TAB \o "b" \o TAB \o "c" \o TAB \o "d" \o TAB \o "10000000000000000000",
      "facebook.com" \o TAB \o "/" \o TAB \o "TRUE" \o TAB \o "FALSE" \o TAB
          \o "0" \o TAB \o "xs_ga",
      TAB \o Row("facebook.com", "0", "xs_ga", "v"),
      "" }

InitMetrics == InitWith(MetricLines)

SpecMetrics == InitMetrics /\ [][NextClean]_vars

(***************************************************************************)
(* The cleaner run again and again on the caller's file or on the file it  *)
(* wrote, which it then overwrites.                                        *)
(***************************************************************************)
NextAgain == \E i \in Paths : CleanCookies(i, "out.txt")

SpecAgain == InitClean /\ [][NextAgain]_vars

(***************************************************************************)
(* The domain normalizer on the domains of the sites that the category     *)
(* bonuses count.                                                          *)
(***************************************************************************)
\* the sites the category bonuses count
CategorySites ==
    CATEGORY_SCORES.social \cup CATEGORY_SCORES.professional
    \cup CATEGORY_SCORES.entertainment \cup CATEGORY_SCORES.shopping

\* the domain of each of these sites
SiteDomain ==
    [site \in CategorySites |->
        IF site = "twitch" THEN "twitch.tv" ELSE site \o ".com"]

NextSites == \E site \in CategorySites : GetMainDomain(SiteDomain[site])

SpecSites == InitDomain /\ [][NextSites]_vars

(***************************************************************************)
(* The bot.  The handlers of a chat's session, and file_handler run step   *)
(* by step: a step ends where the handler awaits Telegram, so the handlers *)
(* of two uploads and of the menus interleave there.                       *)
(***************************************************************************)
\* the names NamedTemporaryFile may give
TempNames == {"tmp" \o NatToStr(u) \o ".txt" : u \in 1..MaxUploads}

\* the handlers that only show a menu: the state filter of the handler's
\* decorator ("any" where it has none), the key of the session data without
\* which the handler does nothing (needs), the key it stores with
\* update_data (adds), and the state it sets ("same" where it sets none).
\* A handler that edits its message only if the key is held, and otherwise
\* sends a new one and stores its id, holds the key afterwards either way.
Handlers ==
    [start                 |-> [when |-> "any", needs |-> "",
                                adds |-> "main_message_id", state |-> "main_menu"],
     cookie_cleaner        |-> [when |-> "any", needs |-> "",
                                adds |-> "message_id", state |-> "waiting_for_file"],
     upload_another        |-> [when |-> "any", needs |-> "",
                                adds |-> "message_id", state |-> "waiting_for_file"],
     id_menu               |-> [when |-> "any", needs |-> "",
                                adds |-> "main_message_id", state |-> "id_menu"],
     get_my_id             |-> [when |-> "id_menu", needs |-> "main_message_id",
                                adds |-> "", state |-> "same"],
     get_id                |-> [when |-> "any", needs |-> "main_message_id",
                                adds |-> "", state |-> "get_id_waiting"],
     back_to_main          |-> [when |-> "any", needs |-> "",
                                adds |-> "main_message_id", state |-> "main_menu"],
     back_to_id_menu       |-> [when |-> "any", needs |-> "",
                                adds |-> "main_message_id", state |-> "id_menu"],
     handle_forwarded_message |->
                               [when |-> "get_id_waiting", needs |-> "",
                                adds |-> "reply_message_id", state |-> "same"],
     get_id_reply          |-> [when |-> "any", needs |-> "reply_message_id",
                                adds |-> "", state |-> "get_id_waiting"],
     back_to_id_menu_reply |-> [when |-> "any", needs |-> "reply_message_id",
                                adds |-> "", state |-> "id_menu"],
     back_to_main_reply    |-> [when |-> "any", needs |-> "reply_message_id",
                                adds |-> "", state |-> "main_menu"],
     get_my_id_reply       |-> [when |-> "any", needs |-> "reply_message_id",
                                adds |-> "", state |-> "same"],
     id_menu_reply         |-> [when |-> "any", needs |-> "reply_message_id",
                                adds |-> "", state |-> "id_menu"],
     cookie_cleaner_reply  |-> [when |-> "any", needs |-> "reply_message_id",
                                adds |-> "", state |-> "waiting_for_file"],
     cancel_reply          |-> [when |-> "any", needs |-> "reply_message_id",
                                adds |-> "", state |-> "main_menu"],
     clear_id_history      |-> [when |-> "any", needs |-> "main_message_id",
                                adds |-> "processed_ids", state |-> "same"]]

\* the user sends /start, presses the button whose callback data is h, or
\* forwards a message, and Telegram accepts what the handler sends
Handle(h) ==
    /\ Handlers[h].when \in {"any", session.state}
    /\ session' =
           IF Handlers[h].needs \in {""} \cup session.data
           THEN [state |-> IF Handlers[h].state = "same" THEN session.state
                           ELSE Handlers[h].state,
                 data |-> session.data \cup ({Handlers[h].adds} \ {""})]
           ELSE session
    /\ last' = [op |-> h]
    /\ UNCHANGED <<files, cache, now, tasks>>

\* the user presses Cancel: with a main message that can be edited the
\* session is cleared and keeps main_message_id only, otherwise it is cleared
cancel_callback ==
    /\ \E edited \in BOOLEAN :
           session' = IF "main_message_id" \in session.data /\ edited
                      THEN [state |-> "main_menu", data |-> {"main_message_id"}]
                      ELSE NoSession
    /\ last' = [op |-> "cancel"]
    /\ UNCHANGED <<files, cache, now, tasks>>

\* file_handler ends: finally removes the files its locals name
Finally(u, kind) ==
    /\ files' = Cleanup(files, {tasks[u].temp_input, tasks[u].temp_output,
                                tasks[u].stats_file} \ {""})
    /\ tasks' = [tasks EXCEPT ![u] = NoTask]
    /\ last' = [op |-> "file_handler", kind |-> kind,
                removed |-> Cardinality({p \in DOMAIN files :
                                            files'[p] # files[p]})]

\* a single document arrives: without a message_id in the session data the
\* upload is rejected and the session cleared, otherwise the status message
\* is being edited
FileHandlerStart(u) ==
    /\ tasks[u].pc = "idle"
    /\ IF "message_id" \in session.data
       THEN /\ tasks' = [tasks EXCEPT ![u].pc = "edit"]
            /\ UNCHANGED session
       ELSE /\ session' = NoSession
            /\ UNCHANGED tasks
    /\ last' = [op |-> "file_handler", state |-> session.state,
                kind |-> IF "message_id" \in session.data THEN "accepted"
                         ELSE "session_error"]
    /\ UNCHANGED <<files, cache, now>>

\* the status message was edited, or editing it raised: NamedTemporaryFile
\* creates a file under a name that does not exist and the download starts
Download(u) ==
    /\ tasks[u].pc = "edit"
    /\ \E edited \in BOOLEAN :
           IF edited
           THEN \E n \in TempNames :
                    /\ ~Exists(files, n)
                    /\ files' = [files EXCEPT ![n] = <<"">>]
                    /\ tasks' = [tasks EXCEPT ![u].pc = "download",
                                              ![u].temp_input = n]
           ELSE /\ tasks' = [tasks EXCEPT ![u].pc = "except"]
                /\ UNCHANGED files
    /\ UNCHANGED <<cache, now, last, session>>

\* the download ended and the status message was edited, or one of them
\* raised: clean_cookies writes temp_output, or raises.  The documents are
\* one that is cleaned and one whose expiry makes clean_cookies raise after
\* it wrote its output.
Downloaded(u) ==
    /\ tasks[u].pc = "download"
    /\ \/ /\ tasks' = [tasks EXCEPT ![u].pc = "except"]
          /\ UNCHANGED <<files, cache>>
       \/ \E document \in
              { WriteLines(<<Row("facebook.com", "0", "c_user", "v1")>>),
                WriteLines(<<Row("facebook.com", "100000000000000000",
                                 "xs", "v")>>) } :
              LET out == clean_cookies(
                             [files EXCEPT ![tasks[u].temp_input] = <<document>>],
                             cache, now, tasks[u].temp_input,
                             tasks[u].temp_input \o "_cleaned.txt")
              IN  /\ files' = out.files
                  /\ cache' = out.cache
                  /\ tasks' =
                         [tasks EXCEPT
                              ![u].temp_output =
                                  tasks[u].temp_input \o "_cleaned.txt",
                              ![u].pc = IF out.kind = "raise" THEN "except"
                                        ELSE "stats",
                              ![u].stats = IF out.kind = "raise" THEN <<>>
                                           ELSE out.result]
    /\ UNCHANGED <<now, last, session>>

\* the status message was edited, or editing it raised: the stats file is
\* opened and written, and either may raise
WriteStats(u) ==
    /\ tasks[u].pc = "stats"
    /\ \/ /\ tasks' = [tasks EXCEPT ![u].pc = "except"]
          /\ UNCHANGED files
       \/ \E written \in {<<>>, <<"">>,
                          <<StatsText(StatsScore(tasks[u].stats))>>} :
              /\ files' = [files EXCEPT
                               ![tasks[u].temp_input \o "_stats.txt"] = written]
              /\ tasks' = [tasks EXCEPT
                               ![u].stats_file =
                                   tasks[u].temp_input \o "_stats.txt",
                               ![u].pc = IF written \in {<<>>, <<"">>}
                                         THEN "except" ELSE "send"]
    /\ UNCHANGED <<cache, now, last, session>>

\* the status is edited, the stats file sent and the status edited again:
\* the handler returns, or one of the three raised
Send(u) ==
    /\ tasks[u].pc = "send"
    /\ \/ Finally(u, "return")
       \/ /\ tasks' = [tasks EXCEPT ![u].pc = "except"]
          /\ UNCHANGED <<files, last>>
    /\ UNCHANGED <<cache, now, session>>

\* the except clause: the error is shown in the status message; if editing
\* it raises the error is sent as a new message and the session cleared; if
\* that raises too, the exception leaves the handler
HandleError(u) ==
    /\ tasks[u].pc = "except"
    /\ \E edited \in BOOLEAN, answered \in BOOLEAN :
           /\ session' = IF ~edited /\ answered THEN NoSession ELSE session
           /\ Finally(u, IF edited \/ answered THEN "error" ELSE "raise")
    /\ UNCHANGED <<cache, now>>

\* the bot starts polling: no session, no upload, no temporary file
InitBot ==
    /\ files = [p \in UNION {{n, n \o "_cleaned.txt", n \o "_stats.txt"} :
                             n \in TempNames} |-> NoFile]
    /\ cache = <<>>
    /\ now = Now0
    /\ last = [op |-> "none"]
    /\ session = NoSession
    /\ tasks = [u \in 1..MaxUploads |-> NoTask]

\* a chat: the menus, Cancel, and one upload at a time
NextSession ==
    \/ \E h \in DOMAIN Handlers : Handle(h)
    \/ cancel_callback
    \/ FileHandlerStart(1)
    \/ Download(1)
    \/ Downloaded(1)
    \/ WriteStats(1)
    \/ Send(1)
    \/ HandleError(1)

SpecSession == InitBot /\ [][NextSession]_vars

\* a chat in which the user opens the cookie cleaner and uploads documents
\* without waiting for the results
NextUploads ==
    \/ Handle("cookie_cleaner")
    \/ \E u \in 1..MaxUploads :
           \/ FileHandlerStart(u)
           \/ Download(u)
           \/ Downloaded(u)
           \/ WriteStats(u)
           \/ Send(u)
           \/ HandleError(u)

SpecUploads == InitBot /\ [][NextUploads]_vars

(***************************************************************************)
(* Properties.  What the last call of clean_cookies read and wrote.        *)
(***************************************************************************)
CleanCalled == last.op = "clean_cookies"

CleanReturned == CleanCalled /\ last.kind = "return"

\* the lines of the input file, as they stand in the file
InputLinesRead == ReadLines(Text(last.before.files, last.args.input_file_path))

\* the lines of the output file
OutputLinesWritten == ReadLines(Text(files, last.args.output_file_path))

\* the tab-separated fields of a line of a file
Fields(line) == Split(line, TAB)

\* the (domain, cookie-name) pair of a line of at least 7 fields
PairOf(line) == <<Fields(line)[1], Fields(line)[6]>>

\* the input lines with at least 7 tab-separated fields
ValidInputLines ==
    {InputLinesRead[i] : i \in {j \in 1..Len(InputLinesRead) :
                                    Len(Fields(InputLinesRead[j])) >= 7}}

\* C1: after clean_cookies returns, every output line has a (domain,
\* cookie-name) pair that occurs in an input line of at least 7 fields, no
\* pair occurs in two output lines, and detect_auth names an auth cookie
\* for the pair of every output line.
C1_DedupInvariant ==
    CleanReturned =>
        LET outl == OutputLinesWritten
        IN  /\ \A i \in 1..Len(outl) :
                   /\ Len(Fields(outl[i])) >= 7
                   /\ \E r \in ValidInputLines : PairOf(r) = PairOf(outl[i])
                   /\ Truthy(detect_auth(MainDomainOf(PairOf(outl[i])[1]),
                                         PairOf(outl[i])[2]))
            /\ \A i, j \in 1..Len(outl) :
                   PairOf(outl[i]) = PairOf(outl[j]) => i = j

\* C2: the score and level file_handler computes from the Result of
\* clean_cookies equal the score and level the CLI computes from
\* parse_cookies on the same file.
C2_BotScoreIsCliScore ==
    (last.op = "file_handler" /\ last.kind = "return") =>
        LET out == main(last.before.files, <<>>, "in.txt")
        IN  /\ out.kind = "return"
            /\ last.score = out.score
            /\ last.level = out.level

\* C3: every line of the output file is, character for character, a line
\* of the input file, and the output file is its lines each followed by
\* exactly one newline.
C3_OutputVerbatim ==
    CleanReturned =>
        /\ \A i \in 1..Len(OutputLinesWritten) :
               \E j \in 1..Len(InputLinesRead) :
                   OutputLinesWritten[i] = InputLinesRead[j]
        /\ Text(files, last.args.output_file_path) = WriteLines(OutputLinesWritten)
        /\ \A i \in 1..Len(OutputLinesWritten) : OutputLinesWritten[i] # ""

\* C4: two lines of at least 7 fields are duplicates exactly when their
\* domain fields and their cookie-name fields are equal: total_unique_cookies
\* and the sum of the per-site counts are the number of distinct
\* (domain, cookie-name) pairs of the lines of at least 7 fields.
C4_UniqueIsDistinctPairs ==
    CleanReturned =>
        LET pairs == {PairOf(r) : r \in ValidInputLines}
        IN  /\ last.result.total_unique_cookies = Cardinality(pairs)
            /\ SumValues(last.result.sites) = Cardinality(pairs)

\* C5: when the input file does not exist, clean_cookies raises the
\* file-not-found error parse_cookies raises, carrying the input path,
\* returns no Result and leaves the output file as it was.
C5_MissingInputRaisesFileNotFound ==
    (CleanCalled /\ ~Exists(last.before.files, last.args.input_file_path)) =>
        /\ last.kind = "raise"
        /\ last.exc = "FileNotFoundError"
        /\ last.exc = parse_cookies(last.before.files, <<>>,
                                    last.args.input_file_path).exc
        /\ last.filename = last.args.input_file_path
        /\ files = last.before.files

RECURSIVE Picked(_, _)
\* the lines whose position is in idx, in their order
Picked(lines, idx) ==
    IF Len(lines) = 0 THEN <<>>
    ELSE Picked(SubSeq(lines, 1, Len(lines) - 1), idx)
         \o (IF Len(lines) \in idx THEN <<lines[Len(lines)]>> ELSE <<>>)

\* the non-blank input lines as the program reads them
InputLinesStripped == StrippedLines(InputLinesRead)

\* the key by which the program tells two valid lines apart
KeyOf(line) == unique_key(Fields(line)[1], Fields(line)[6])

\* positions of the valid lines of L that are the first with their key
FirstOccurrences(L) ==
    {i \in 1..Len(L) :
        /\ Len(Fields(L[i])) >= 7
        /\ \A j \in 1..(i - 1) :
               Len(Fields(L[j])) >= 7 => KeyOf(L[j]) # KeyOf(L[i])}

\* the parser recorded, for the site of the line, an auth name found in
\* the cookie name of the line
AuthRecorded(line) ==
    LET site == MainDomainOf(Fields(line)[1])
        recorded == last.result.auth_detected
    IN  /\ Has(recorded, site)
        /\ \E a \in Get(recorded, site) :
               Contains(Lower(a), Lower(Fields(line)[6]))

\* the Result and the output agree with the first occurrences among the
\* stripped input lines L
PassesAgreeOn(L, firsts, outl) ==
    /\ last.result.total_unique_cookies = SumValues(last.result.sites)
    /\ last.result.unique_sites = Cardinality(Keys(last.result.sites))
    /\ last.result.total_unique_cookies = Cardinality(firsts)
    /\ outl = Picked(L, {i \in firsts : AuthRecorded(L[i])})
    /\ last.result.total_cleaned = Len(outl)

\* C6: the two passes of clean_cookies agree: total_unique_cookies is the
\* sum of the per-site counts, unique_sites is the number of sites, and the
\* lines kept for output are exactly the first occurrences for which the
\* parser recorded an auth match.
C6_PassesAgree ==
    CleanReturned =>
        PassesAgreeOn(InputLinesStripped, FirstOccurrences(InputLinesStripped),
                      OutputLinesWritten)

\* C6 witness: of two valid lines with one key, both passes kept the first
C6_Witness ==
    /\ CleanReturned
    /\ Len(InputLinesStripped) = 2
    /\ \A i \in 1..2 : Len(Fields(InputLinesStripped[i])) >= 7
    /\ InputLinesStripped[1] # InputLinesStripped[2]
    /\ last.result.total_unique_cookies = 1
    /\ last.result.total_cleaned = 1

\* a Result without its age field
WithoutAge(result) == [result EXCEPT !.oldest_cookie_age = ""]

\* two calls of clean_cookies in a row returned, with the same arguments
\* and the same text in the input file
SameCallAgain ==
    /\ CleanReturned
    /\ CleanReturned'
    /\ last'.args = last.args
    /\ last'.before.files[last.args.input_file_path]
           = last.before.files[last.args.input_file_path]

\* C7: two runs of clean_cookies in one process on the same input write
\* the same output file and return Results equal in every field but
\* oldest_cookie_age, whatever the cache holds when each run starts.
C7_SameInputSameResult ==
    [][SameCallAgain =>
          /\ WithoutAge(last'.result) = WithoutAge(last.result)
          /\ files'[last.args.output_file_path] = files[last.args.output_file_path]
      ]_vars

\* C7 witness: a run on a file of two sites that started a day later, with
\* the cache left by earlier runs, and rewrote the output it found
C7_Witness ==
    /\ CleanReturned
    /\ last.args.input_file_path = "in.txt"
    /\ last.before.cache # <<>>
    /\ last.before.now # Now0
    /\ last.before.files[last.args.output_file_path] # NoFile
    /\ last.before.files[last.args.output_file_path]
           = files[last.args.output_file_path]
    /\ Len(last.result.sites) > CacheMax
    /\ last.result.total_cleaned >= 1

\* a non-blank line of fewer than 7 tab-separated fields
Short(line) == Strip(line) # "" /\ Len(Fields(line)) < 7

\* the file system the call started with, the input file holding these lines
WithInput(lines) ==
    [last.before.files EXCEPT ![last.args.input_file_path] = <<WriteLines(lines)>>]

\* clean_cookies run in the state the call started in, on these input lines
CleanOf(lines) ==
    clean_cookies(WithInput(lines), last.before.cache, last.before.now,
                  last.args.input_file_path, last.args.output_file_path)

\* parse_cookies run in the state the call started in, on these input lines
ParseOf(lines) ==
    parse_cookies(WithInput(lines), last.before.cache, last.args.input_file_path)

\* the aggregates of parse_cookies
Aggregates(parsed) ==
    <<parsed.site_counter, parsed.service_counter, parsed.auth_detected>>

\* the lines of L that are not short
WithoutShort(L) == Picked(L, {i \in 1..Len(L) : ~Short(L[i])})

\* the call and the parser on all lines did what ref and parsedRest, run
\* on the other lines only, did
SkippedAs(parsedAll, parsedRest, ref) ==
    ref.kind = "return" =>
        /\ last.kind = "return"
        /\ parsedAll.kind = "return"
        /\ Aggregates(parsedAll) = Aggregates(parsedRest)
        /\ last.result.sites = ref.result.sites
        /\ last.result.services = ref.result.services
        /\ last.result.auth_detected = ref.result.auth_detected
        /\ last.result.total_unique_cookies = ref.result.total_unique_cookies
        /\ last.result.total_cleaned = ref.result.total_cleaned
        /\ files[last.args.output_file_path] = ref.files[last.args.output_file_path]

\* the short lines of L are skipped
ShortSkippedIn(L, rest) == SkippedAs(ParseOf(L), ParseOf(rest), CleanOf(rest))

\* C8: non-blank lines of fewer than 7 fields never abort parse_cookies or
\* clean_cookies, and the aggregates and the output file are those of the
\* input without these lines, wherever they stand in the file.
C8_ShortLinesSkipped ==
    (CleanCalled /\ Exists(last.before.files, last.args.input_file_path)) =>
        ShortSkippedIn(InputLinesRead, WithoutShort(InputLinesRead))

\* C8 witness: a short line came before a valid line that was counted
C8_Witness ==
    /\ CleanReturned
    /\ Len(InputLinesRead) = 2
    /\ Short(InputLinesRead[1])
    /\ ~Short(InputLinesRead[2])
    /\ last.result.total_unique_cookies = 1
    /\ last.result.total_cleaned = 1

\* int(s) = t gives no timestamp: s is not an integer, or it is a positive
\* integer that datetime.fromtimestamp does not take
NotTimestamp(t) ==
    \/ t = <<>>
    \/ ~t[1].negative /\ t[1].digits # "" /\ FromTimestamp(t[1].digits) # "ok"

\* the expiry field of the line, read without the whitespace around the
\* line, is there and is not an integer timestamp
BadExpiry(line) ==
    Len(Fields(Strip(line))) >= 5 /\ NotTimestamp(IntText(Fields(Strip(line))[5]))

\* the line with expiry 0 if its expiry is not an integer timestamp
ExpiryZeroed(line) ==
    IF BadExpiry(line)
    THEN JoinWith([Fields(Strip(line)) EXCEPT ![5] = "0"], TAB)
    ELSE line

ZeroedAll(lines) == [i \in 1..Len(lines) |-> ExpiryZeroed(lines[i])]

\* the call did what ref, run on the lines with their expiry zeroed, did
ZeroedAs(ref) ==
    /\ last.kind = "return"
    /\ last.result = ref.result
    /\ ZeroedAll(OutputLinesWritten)
           = ReadLines(Text(ref.files, last.args.output_file_path))

\* C9: a line whose expiry is not an integer timestamp never aborts
\* clean_cookies, and the Result and the lines kept are those of the input
\* with the expiry of such lines set to 0.
C9_BadExpiryAsZero ==
    (CleanCalled /\ Exists(last.before.files, last.args.input_file_path)) =>
        ZeroedAs(CleanOf(ZeroedAll(InputLinesRead)))

\* C9 witness: a line with a bad expiry was kept and counted as a tracker,
\* and the age came from another line
C9_Witness ==
    /\ CleanReturned
    /\ \E i \in 1..Len(InputLinesRead) : BadExpiry(InputLinesRead[i])
    /\ \E i \in 1..Len(OutputLinesWritten) : BadExpiry(OutputLinesWritten[i])
    /\ last.result.tracking_intensity >= 1
    /\ last.result.oldest_cookie_age # "Unknown"

\* C10: privacy_score lies between 0.0 and 10.0 as total_cleaned is at most
\* total_unique_cookies; it is (1 - total_cleaned / total_unique_cookies)
\* * 10 to the nearest tenth, and 10.0 when total_unique_cookies is 0.
C10_PrivacyScoreBounds ==
    CleanReturned =>
        LET p == last.result.privacy_score
            c == last.result.total_cleaned
            t == last.result.total_unique_cookies
            err == p * t - 100 * (t - c)
        IN  /\ 0 <= p /\ p <= 100
            /\ c <= t
            /\ t = 0 => p = 100
            /\ t > 0 => (2 * err <= t /\ 2 * (0 - err) <= t)

\* C10 witness: some but not all unique cookies were kept
C10_Witness ==
    /\ CleanReturned
    /\ 0 < last.result.total_cleaned
    /\ last.result.total_cleaned < last.result.total_unique_cookies
    /\ 0 < last.result.privacy_score
    /\ last.result.privacy_score < 100

(***************************************************************************)
(* The domain normalizer against its reference operator.                   *)
(***************************************************************************)
\* the rules in the order the normalizer is to scan them
RuleOrder ==
    <<"linkedin", "github", "discord", "twitch", "netflix", "spotify",
      "reddit", "tiktok", "paypal", "x", "google", "amazon", "ebay",
      "facebook", "instagram", "roblox", "steam", "epicgames", "microsoft",
      "apple", "genshin", "minecraft">>

RECURSIVE NoLeadingDot(_)
\* d without the dots it starts with
NoLeadingDot(d) ==
    IF Len(d) > 0 /\ CharAt(d, 1) = "."
    THEN NoLeadingDot(SubSeq(d, 2, Len(d)))
    ELSE d

\* the last two labels of d: what follows the last dot but one, or d when
\* it has fewer than two dots
LastTwoLabels(d) ==
    LET dots == {i \in 1..Len(d) : CharAt(d, i) = "."}
    IN  IF Cardinality(dots) < 2 THEN d
        ELSE SubSeq(d, (CHOOSE i \in dots :
                           Cardinality({j \in dots : j > i}) = 1) + 1, Len(d))

RECURSIVE ScanRules(_, _)
\* the name of the first rule from the i-th on with a pattern in d, or the
\* last two labels of d
ScanRules(i, d) ==
    IF i > Len(RuleOrder) THEN LastTwoLabels(d)
    ELSE IF \E p \in Elements(Get(domain_mappings, RuleOrder[i])) : Contains(p, d)
         THEN RuleOrder[i]
         ELSE ScanRules(i + 1, d)

\* the reference operator
ReferenceDomain(d) == ScanRules(1, NoLeadingDot(Lower(d)))

RECURSIVE Upper(_)
\* str.upper on ASCII text
Upper(s) == IF Len(s) = 0 THEN "" ELSE UpperChar(CharAt(s, 1)) \o Upper(SubSeq(s, 2, Len(s)))

\* d in other cases
CaseVariants(d) == {Lower(d), Upper(d), Capitalize(d)}

DomainCalled == last.op = "get_main_domain"

ScoreCalled == last.op = "calculate_score"

\* the number of entries of a list equal to x
CountOf(list, x) == Cardinality({i \in 1..Len(list) : list[i] = x})

AuthReason == "+" \o IntToStr(SCORING_RULES.auth_bonus) \o " AUTH cookies detected"

\* some site has a non-empty set of auth cookies
SomeAuth(auth_detected) ==
    \E i \in 1..Len(auth_detected) : auth_detected[i].v # {}

\* the auth bonus was added n times: n reasons, and n times the bonus over
\* the score of the same call without auth cookies
AuthBonusTimes(n, without) ==
    /\ CountOf(last.score_reasons, AuthReason) = n
    /\ last.score = without.score + n * SCORING_RULES.auth_bonus

PointsOf(reason) == ParseInt(Split(reason, " ")[1])[1]

RECURSIVE SumPoints(_)
\* the points the reasons show, together
SumPoints(reasons) ==
    IF Len(reasons) = 0 THEN 0 ELSE PointsOf(Head(reasons)) + SumPoints(Tail(reasons))

\* how many of the given sites are present
Present(sites, given) == Cardinality(Keys(sites) \cap given)

\* the bonus with its label was applied exactly when its condition holds,
\* with the points of its label
BonusIff(condition, label) ==
    CountOf(last.score_reasons, label) = IF condition THEN 1 ELSE 0

\* the four conditions, on the sites present
CategoryConditions(sites) ==
    [social |-> Present(sites, {"facebook", "instagram", "x", "tiktok", "discord"}) >= 3,
     professional |-> Present(sites, {"linkedin", "github"}) = 2,
     entertainment |-> Present(sites, {"netflix", "spotify", "twitch", "youtube"}) >= 2,
     shopping |-> Present(sites, {"amazon", "ebay", "paypal"}) >= 2]

CategoryReasons ==
    <<"+2 Social butterfly", "+3 Tech professional", "+1 Entertainment addict",
      "+2 Shopaholic">>

\* the category reasons among the given reasons
CategoryPart(reasons) == SelectSeq(reasons, LAMBDA r : r \in Elements(CategoryReasons))

\* the points of the bonuses whose conditions hold
CategoryPoints(c) ==
    (IF c.social THEN 2 ELSE 0) + (IF c.professional THEN 3 ELSE 0)
    + (IF c.entertainment THEN 1 ELSE 0) + (IF c.shopping THEN 2 ELSE 0)

BonusesAs(c) ==
    /\ BonusIff(c.social, CategoryReasons[1])
    /\ BonusIff(c.professional, CategoryReasons[2])
    /\ BonusIff(c.entertainment, CategoryReasons[3])
    /\ BonusIff(c.shopping, CategoryReasons[4])
    /\ SumPoints(CategoryPart(last.score_reasons)) = CategoryPoints(c)
    /\ last.score = SumPoints(last.score_reasons)

\* C13: each of the four category bonuses is applied exactly when its own
\* condition holds on the sites present, whatever the other three do, and
\* adds to the score the points its label shows (+2, +3, +1, +2)
C13_CategoryBonusesIndependent ==
    ScoreCalled => BonusesAs(CategoryConditions(last.site_counter))

\* the four bonuses applied together in one call
C13_Witness ==
    /\ ScoreCalled
    /\ Elements(CategoryReasons) \subseteq Elements(last.score_reasons)

\* the levels of the table as a set of [level, min_score]
Levels ==
    {[level |-> SCORING_RULES.levels[i].k,
      min_score |-> SCORING_RULES.levels[i].v.min_score] :
         i \in 1..Len(SCORING_RULES.levels)}

\* the level with the greatest min_score that is <= score, or "LOW"
GreatestLevel(score) ==
    LET reached == {l \in Levels : l.min_score <= score}
    IN  IF reached = {} THEN "LOW"
        ELSE (CHOOSE l \in reached : \A m \in reached : m.min_score <= l.min_score).level

\* the min_score of a level
MinScoreOf(level) == (CHOOSE l \in Levels : l.level = level).min_score

\* C14: the level returned with a score is the one with the greatest
\* min_score that is <= the score ("LOW" when there is none), so that no
\* lower score has a level with a greater min_score
C14_LevelIsGreatestReached ==
    ScoreCalled =>
        /\ last.level = GreatestLevel(last.score)
        /\ \A s \in 0..last.score :
               MinScoreOf(LevelOf(s)) <= MinScoreOf(last.level)

\* a score between the thresholds of two levels got the lower of them
C14_Witness ==
    /\ ScoreCalled
    /\ last.score > 6 /\ last.score < 12
    /\ last.level = "MEDIUM"

\* every reason calculate_score can give, in the order the points are
\* applied: sites in table order, category bonuses, services, auth
AllReasons ==
    [i \in 1..Len(SCORING_RULES.sites) |->
        "+" \o IntToStr(SCORING_RULES.sites[i].v) \o " "
        \o Capitalize(SCORING_RULES.sites[i].k) \o " cookies"]
    \o CategoryReasons
    \o <<"+2 Gmail detected", "+1 Youtube detected">>
    \o <<AuthReason>>

\* the place of a reason in that order
PlaceOf(reason) == CHOOSE i \in 1..Len(AllReasons) : AllReasons[i] = reason

\* C20: the reasons come in the order the points are applied: site reasons
\* in table order, then the category bonuses (social, professional,
\* entertainment, shopping), then the service reasons, the auth reason
\* last; each addition has one reason, so the score is the sum of the
\* points the reasons show
C20_ReasonsInOrder ==
    ScoreCalled =>
        /\ \A i \in 1..Len(last.score_reasons) :
               last.score_reasons[i] \in Elements(AllReasons)
        /\ \A i, j \in 1..Len(last.score_reasons) :
               i < j => PlaceOf(last.score_reasons[i]) < PlaceOf(last.score_reasons[j])
        /\ Len(last.score_reasons)
               = Cardinality({s \in Keys(last.site_counter) : Has(SCORING_RULES.sites, s)})
                 + Len(CategoryPart(last.score_reasons))
                 + Cardinality({r \in Elements(last.score_reasons) :
                                   PlaceOf(r) > Len(SCORING_RULES.sites) + 4})
        /\ SumPoints(last.score_reasons) = last.score

\* a call gave reasons of all four kinds, the auth reason last
C20_Witness ==
    /\ ScoreCalled
    /\ Len(last.score_reasons) >= 4
    /\ last.score_reasons[Len(last.score_reasons)] = AuthReason
    /\ "+2 Gmail detected" \in Elements(last.score_reasons)
    /\ "+2 Shopaholic" \in Elements(last.score_reasons)
    /\ "+1 Google cookies" \in Elements(last.score_reasons)

(***************************************************************************)
(* The metrics of the last call of clean_cookies.                          *)
(***************************************************************************)
InputExisted == CleanCalled /\ Exists(last.before.files, last.args.input_file_path)

\* the digits of the positive integer expiries of the non-blank lines with
\* at least 5 fields
PositiveExpiries(lines) ==
    {IntText(Fields(Strip(lines[i]))[5])[1].digits :
        i \in {j \in 1..Len(lines) :
                  /\ Strip(lines[j]) # ""
                  /\ Len(Fields(Strip(lines[j]))) >= 5
                  /\ IntText(Fields(Strip(lines[j]))[5]) # <<>>
                  /\ ~IntText(Fields(Strip(lines[j]))[5])[1].negative
                  /\ IntText(Fields(Strip(lines[j]))[5])[1].digits # ""}}

\* the least of a set of integers given by their digits
LeastDigits(set) == CHOOSE a \in set : \A b \in set : DigitsLeq(a, b)

\* the age text for whole days d
AgeTextFor(d) ==
    IF d < 1 THEN "Less than 1 day"
    ELSE IF d < 30 THEN IntToStr(d) \o " days"
    ELSE IF d < 365 THEN IntToStr(d \div 30) \o " months"
    ELSE IntToStr(d \div 365) \o " years"

\* the age text of an expiry given by its digits; one beyond the year 2038
\* is in the future for the clock of the model
AgeTextOfDigits(digits, current_time) ==
    IF DigitsLeq(digits, "2147483647")
    THEN AgeTextFor((current_time - DigitsValue(digits)) \div SecondsPerDay)
    ELSE "Less than 1 day"

\* the oldest cookie age the expiries give
ExpectedAge(expiries, current_time) ==
    IF expiries = {} THEN "Unknown"
    ELSE AgeTextOfDigits(LeastDigits(expiries), current_time)

\* C17: oldest_cookie_age is computed from the least positive integer
\* expiry over the non-blank lines with at least 5 fields: "Less than 1
\* day", "d days", "d div 30 months" or "d div 365 years" by the whole
\* days d from it to now, and "Unknown" exactly when no line has a positive
\* integer expiry
C17_OldestAgeFromLeastExpiry ==
    InputExisted =>
        /\ last.kind = "return"
        /\ last.result.oldest_cookie_age
               = ExpectedAge(PositiveExpiries(InputLinesRead), last.before.now)

\* the fragments the name of a tracker holds, lowercased
Fragments == {Lower(tracking_patterns[j]) : j \in 1..Len(tracking_patterns)}

\* a non-blank line, as it stands in the file, with at least 6 fields and
\* a fragment in its lowercased cookie name (field 6)
RawTracker(line) ==
    /\ Strip(line) # ""
    /\ Len(Fields(line)) >= 6
    /\ \E f \in Fragments : Contains(f, Lower(Fields(line)[6]))

\* C18: the tracking count is the number of non-blank raw input lines with
\* at least 6 fields whose lowercased cookie name holds a tracker fragment,
\* each line counted once, duplicates and lines of exactly 6 fields too
C18_TrackingCountOverRawLines ==
    (InputExisted /\ last.kind = "return") =>
        last.result.tracking_intensity
            = Cardinality({i \in 1..Len(InputLinesRead) : RawTracker(InputLinesRead[i])})

\* no line of the input is valid for classification
NoValidLine(lines) ==
    \A i \in 1..Len(lines) : Len(Fields(Strip(lines[i]))) < 7

\* the Result of an input without valid lines, and the score a caller
\* computes from it
EmptyResult(result, scored) ==
    /\ result.total_cleaned = 0
    /\ result.total_unique_cookies = 0
    /\ result.unique_sites = 0
    /\ result.tracking_intensity = 0
    /\ result.most_common_site = "None"
    /\ result.privacy_score = 100
    /\ scored.score = 0
    /\ scored.level = SCORING_RULES.levels[Len(SCORING_RULES.levels)].k

\* C15: for an input with no valid line (empty, blank lines only, or lines
\* of fewer than 7 fields only) clean_cookies returns a Result with every
\* count 0, most_common_site "None", privacy_score 10.0, score 0 and the
\* lowest level, and the output file is written and empty
C15_NoValidLinesGivesEmptyResult ==
    (InputExisted /\ NoValidLine(InputLinesRead)) =>
        /\ last.kind = "return"
        /\ EmptyResult(last.result, StatsScore(last.result))
        /\ files[last.args.output_file_path] = <<"">>

(***************************************************************************)
(* Service labels.                                                         *)
(***************************************************************************)
RECURSIVE FirstService(_, _)
\* the first of the services with a substring in d, or "other"
FirstService(services, d) ==
    IF Len(services) = 0 THEN "other"
    ELSE IF \E p \in Elements(Head(services).v) : Contains(p, d)
         THEN Head(services).k
         ELSE FirstService(Tail(services), d)

\* the service label of a cookie of the site with the given full domain
ServiceLabel(site, domain) ==
    IF Has(SITES, site)
    THEN FirstService(Get(SITES, site).services, Lower(domain))
    ELSE ""

\* the labels of the unique cookies of the site among the lines read
DetectedFor(site, lines) ==
    {ServiceLabel(site, Fields(lines[i])[1]) :
        i \in {j \in FirstOccurrences(lines) :
                  MainDomainOf(Fields(lines[j])[1]) = site}}

\* the listing of a site holds no empty label and only detected services,
\* and the parser counted exactly the detected labels
ListingAs(entry, counted, detected) ==
    /\ "" \notin Elements(entry.v)
    /\ Elements(entry.v) \subseteq detected
    /\ Keys(counted) = detected

\* C16: a unique cookie of a catalog site is labelled with the first
\* service in catalog order with a substring in its lowercased domain, or
\* "other"; one of another site with the empty label; and the Result lists
\* for each site no empty label and only services detected for some unique
\* cookie of that site
C16_ListingHoldsDetectedServices ==
    CleanReturned =>
        \A i \in 1..Len(last.result.services) :
            ListingAs(last.result.services[i],
                      Get(ParseOf(InputLinesRead).service_counter,
                          last.result.services[i].k),
                      DetectedFor(last.result.services[i].k, InputLinesStripped))

(***************************************************************************)
(* The score of the CLI on a file and on the file without its last lines.  *)
(***************************************************************************)
MainReturned == last.op = "main" /\ last.kind = "return"

\* the lines of the file the CLI read
MainLinesRead == ReadLines(Text(last.before.files, last.file_path))

\* the score the CLI prints for a file holding these lines
ScoreOfLines(lines) ==
    main([last.before.files EXCEPT ![last.file_path] = <<WriteLines(lines)>>],
         <<>>, last.file_path).score

\* the k-th line is valid and the first k lines score no less than the
\* first k - 1
NoLessWith(lines, k) ==
    Len(Fields(Strip(lines[k]))) >= 7 =>
        ScoreOfLines(SubSeq(lines, 1, k)) >= ScoreOfLines(SubSeq(lines, 1, k - 1))

\* C19: appending a valid cookie line to an input never decreases the
\* score; in particular a file with one valid cookie of a scored site
\* scores at least 0, the score of the empty input
C19_ScoreMonotone ==
    MainReturned =>
        /\ ScoreOfLines(<<>>) = 0
        /\ last.score = ScoreOfLines(MainLinesRead)
        /\ \A k \in 1..Len(MainLinesRead) : NoLessWith(MainLinesRead, k)

\* the second line of a file raised the score that the first had raised
\* above 0
C19_Witness ==
    /\ MainReturned
    /\ Len(MainLinesRead) = 2
    /\ 0 < ScoreOfLines(SubSeq(MainLinesRead, 1, 1))
    /\ ScoreOfLines(SubSeq(MainLinesRead, 1, 1)) < last.score

(***************************************************************************)
(* The cleaner on its own output.                                          *)
(***************************************************************************)
\* the call read the file it was to write: a file an earlier call wrote
OnOwnOutput ==
    /\ CleanCalled
    /\ last.args.input_file_path = last.args.output_file_path
    /\ Exists(last.before.files, last.args.input_file_path)

\* the positions of the first occurrences of L whose line is among kept
KeptOf(L, kept) == {i \in FirstOccurrences(L) : L[i] \in Elements(kept)}

\* kept holds first occurrences of L, in their order in L
FirstInOrder(L, kept) == kept = Picked(L, KeptOf(L, kept))

\* C21: clean_cookies run on a file that clean_cookies wrote writes the
\* same file again, lines and order, with total_cleaned equal to
\* total_unique_cookies; and what a run writes are first-occurrence lines
\* of its input in their input order
C21_CleanIsIdempotent ==
    /\ CleanReturned => FirstInOrder(InputLinesStripped, OutputLinesWritten)
    /\ OnOwnOutput =>
           /\ last.kind = "return"
           /\ files[last.args.output_file_path]
                  = last.before.files[last.args.input_file_path]
           /\ last.result.total_cleaned = last.result.total_unique_cookies

\* a file of two lines, written from an input with whitespace around its
\* lines, was cleaned again
C21_Witness ==
    /\ OnOwnOutput
    /\ last.kind = "return"
    /\ last.result.total_cleaned = 2
    /\ Len(OutputLinesWritten) = 2
    /\ files["in.txt"] # files["out.txt"]

(***************************************************************************)
(* The sites of the category bonuses as results of the normalizer.         *)
(***************************************************************************)
\* the site whose own domain the last call was given
SiteCalled == CHOOSE site \in CategorySites : SiteDomain[site] = last.domain

\* the sites of a category
CategoryOf(site) ==
    CHOOSE c \in {CATEGORY_SCORES.social, CATEGORY_SCORES.professional,
                  CATEGORY_SCORES.entertainment, CATEGORY_SCORES.shopping} :
        site \in c

RECURSIVE SeqOf(_)
\* the elements of a set in some order
SeqOf(set) ==
    IF set = {} THEN <<>>
    ELSE <<CHOOSE x \in set : TRUE>> \o SeqOf(set \ {CHOOSE x \in set : TRUE})

\* a cookie file of one cookie of the domain
OneCookieOf(domain) ==
    [last.before.files EXCEPT !["in.txt"] = <<WriteLines(<<Row(domain, "0", "n", "v")>>)>>]

\* the main domain stands for the site: a cookie of the domain is counted
\* under the site, and with the other sites of the category the main domain
\* gives the bonus the category gives when all its sites are present
StandsFor(main_domain, site, domain) ==
    /\ main_domain = site
    /\ KeyList(parse_cookies(OneCookieOf(domain), last.before.cache, "in.txt").site_counter)
           = <<site>>
    /\ calculate_category_bonuses(Counted(<<main_domain>> \o SeqOf(CategoryOf(site) \ {site})))
           = calculate_category_bonuses(Counted(SeqOf(CategoryOf(site))))

\* C22: each site a category bonus counts (facebook, instagram, x, tiktok,
\* discord, netflix, spotify, twitch, youtube, linkedin, github, amazon,
\* ebay, paypal) is what get_main_domain returns for the site's own domain,
\* so that a cookie of that domain is counted under the site and counts for
\* the bonus of its category
C22_CategorySitesReachable ==
    (DomainCalled /\ \E site \in CategorySites : SiteDomain[site] = last.domain) =>
        StandsFor(last.value, SiteCalled, last.domain)

(***************************************************************************)
(* The bot's session.                                                      *)
(***************************************************************************)
\* a single document has just arrived while the chat was waiting for a file
UploadedWhileWaiting ==
    /\ last.op = "file_handler"
    /\ last.kind \in {"accepted", "session_error"}
    /\ last.state = "waiting_for_file"

\* C23: whenever the state of the session is waiting_for_file its data
\* holds a message_id, and a single document uploaded in that state is
\* accepted for cleaning, not rejected with "Session error"
C23_WaitingHasStatusMessage ==
    /\ session.state = "waiting_for_file" => "message_id" \in session.data
    /\ UploadedWhileWaiting => last.kind = "accepted"

(***************************************************************************)
(* The temporary files of file_handler.                                    *)
(***************************************************************************)
\* the paths the locals of a run of file_handler hold
LocalsOf(task) == {task.temp_input, task.temp_output, task.stats_file} \ {""}

\* the files on disk that belong to the upload: the downloaded input, the
\* cleaned output and the stats file of the name the upload was given
FilesOf(fs, task) ==
    {p \in {task.temp_input, task.temp_input \o "_cleaned.txt",
            task.temp_input \o "_stats.txt"} \ {"", "_cleaned.txt", "_stats.txt"} :
        Exists(fs, p)}

\* every file on disk belongs to an upload being handled
TempFilesOwned ==
    \A p \in DOMAIN files :
        Exists(files, p) =>
            \E u \in 1..MaxUploads : tasks[u].pc # "idle" /\ p \in FilesOf(files, tasks[u])

\* no two uploads being handled hold the same path
TempPathsApart ==
    \A u, v \in 1..MaxUploads :
        u # v => LocalsOf(tasks[u]) \cap LocalsOf(tasks[v]) = {}

\* the step in which the handler of upload u ends removes the upload's files
FinishedRemoves ==
    \A u \in 1..MaxUploads :
        (tasks[u].pc # "idle" /\ tasks'[u].pc = "idle") =>
            \A p \in FilesOf(files, tasks[u]) : ~Exists(files', p)

\* C24: when file_handler ends, by returning or by raising, no temporary
\* file of its upload remains on disk, whichever step failed, and two
\* uploads handled at once never hold the same temporary path
C24_NoTempFileRemains ==
    /\ [](TempFilesOwned /\ TempPathsApart)
    /\ [][FinishedRemoves]_vars

\* a handler whose three files existed has ended by raising from its error
\* handler, while another upload holds its own three files
C24_Witness ==
    /\ last.op = "file_handler"
    /\ last.kind = "raise"
    /\ last.removed = 3
    /\ \E u \in 1..MaxUploads :
           tasks[u].pc = "send" /\ Cardinality(FilesOf(files, tasks[u])) = 3

====
